---------------------------- MODULE Spec2Model ----------------------------
(***************************************************************************)
(* A model of Kopr (pfassina/kopr): the Markdown formatter, the index      *)
(* store and indexer, the debounced watcher, the vault mutations guarded   *)
(* by the basename check, and the App coordinator's key routing, leader    *)
(* state machine and navigation history.                                   *)
(*                                                                         *)
(* The module holds one specification per subsystem.  Every specification  *)
(* owns a group of variables and leaves the other groups at their initial  *)
(* values.                                                                 *)
(***************************************************************************)
EXTENDS Integers, Sequences, FiniteSets, TLC

VARIABLES
    \* ---- formatter harness (SpecFormat)
    fmtPc,          \* "in" | "once" | "twice"
    fmtIn,          \* the input bytes, a sequence of one-character strings
    fmtOnce,        \* Format(fmtIn)
    fmtTwice,       \* Format(Format(fmtIn))
    \* ---- navigation history (SpecNav)
    currentFile,    \* App.currentFile, "" when no note is open
    prevFile,       \* App.prevFile, "" when there is none
    editorFile,     \* the file the editor has open, "" for none
    navDisk,        \* the notes that exist on disk
    navOpenOk,      \* whether the last open_file RPC succeeded
    navFatal,       \* a fatalErrorMsg has been posted to the loop
    navQuit,        \* the loop has processed it and quit
    navTrace,       \* the last operations the loop processed, oldest first
    \* ---- key routing and leader (SpecKeys)
    focused,        \* App.focused: "editor" | "tree" | "info" | "finder"
    promptVisible,  \* prompt.Visible()
    finderVisible,  \* finder.Visible()
    showSplash,     \* editor.ShowSplash()
    edMode,         \* editor.Mode()
    treeHelp,       \* tree.ShowingHelp()
    showTree,       \* App.showTree
    showInfo,       \* App.showInfo
    leader,         \* App.leader: [active, keys, node, showHelp]
    whichKeyShown,  \* the which-key popup has entries
    pendingKind,    \* App.pendingPrompt.kind
    appRun,         \* "running" | "fatal" (fatalErrorMsg posted) | "quit"
    lastMsg,        \* the kind and argument of the message processed last
    keyTo,          \* who was handed the key processed last
    keyPromptWas,   \* the prompt was visible when that key arrived
    modeCancelled,  \* a sequence was cancelled by a mode change, no Space since
    spaceAfterCancel, \* "no" | "accepting" | "refusing"
    \* ---- index store and indexer (SpecIndex)
    ixDisk,         \* the content of each note file, Missing when absent
    db,             \* the store: notes (hash), fts, noteTags, tags, headings, links
    ixLast,         \* the last operation: <<name, path, "ok" | "error">>
    ixWrites,       \* how many statements of the last operation wrote
    \* ---- watcher (SpecWatcher)
    wTimers,        \* the timers created so far: [path, op, st]
    wDebounce,      \* Watcher.debounce: path -> timer, 0 when absent
    wClosed,        \* Watcher.closed
    wLoop,          \* Watcher.Start is still receiving events
    wFatalSent,     \* onError has posted a fatalErrorMsg
    wErrors,        \* fatal errors that have occurred in the watcher
    wReports,       \* calls of the error callback
    wStopFirst,     \* Stop was called before any error occurred
    wTreeBy,        \* the threads that have refreshed the tree: "loop", "timer"
    \* ---- vault file operations (SpecNote)
    ntDisk,         \* path -> content of the file, or Missing
    ntLast,         \* the last call of the Vault and what it returned
    \* ---- link rewriting (SpecRewrite)
    rwPc,           \* "in", "once" after the first call, "twice" after the second
    rwOrig,         \* the bytes of the note before the first call
    rwFile,         \* the bytes of the note now
    rwOld,          \* the name a
    rwNew,          \* the name b
    \* ---- rename with backlink rewrite (SpecRename; with ixDisk and db)
    rnRenamed,      \* what the rename did: [st, old, new, linkers]
    rnPending,      \* watcher events not yet processed: <<operation, path>>
    rnFatal,        \* a fatal error was posted
    \* ---- prompt dispatch of the App (SpecPrompt; with ixDisk and db)
    prVisible,      \* Prompt.visible
    prError,        \* the inline error of the prompt, "" when none
    prPending,      \* App.pendingPrompt: [kind, path, paths]
    prCurrent,      \* App.currentFile, "" for an unnamed buffer or the splash
    prSplash,       \* Editor.showSplash
    prFinder,       \* Finder.visible
    prRun,          \* "running", or "fatal" once a fatal error was posted
    prLast,         \* the last message handled and the state it found
    \* ---- the close sequence (SpecClose)
    clHas,          \* the parts the App holds: store, rpc, screen, nvim, watcher, db
    clPc,           \* "open", "closed" once App.Close returned
    clFails,        \* the steps whose call returned an error
    clExecuted,     \* the steps called, in order
    clStderr,       \* the steps whose error was printed to stderr, in order
    \* ---- layout and the size of the editor (SpecLayout)
    lyW,            \* App.width
    lyH,            \* App.height
    lyShowTree,     \* App.showTree
    lyShowInfo,     \* App.showInfo
    lyZen,          \* App.zenMode
    lySplash,       \* Editor.showSplash
    lyEd,           \* Editor.width, Editor.height and "new", "starting", "running"
    lySent,         \* the size updateLayout last handed to the editor
    lyPty,          \* the size the PTY and the emulator were last given
    \* ---- focus and key routing
    fcFocused,      \* App.focused
    fcFlags,        \* the focused flags of the editor, tree and info panels
    fcFinder,       \* Finder.visible
    fcPrompt,       \* Prompt.visible
    fcSplash,       \* Editor.showSplash
    fcShowTree,     \* App.showTree
    fcShowInfo,     \* App.showInfo
    fcZen,          \* App.zenMode
    fcLeader,       \* the leader state, off or the node it waits in
    fcInsert,       \* the editor mode is not Normal
    fcInFlight,     \* messages returned as commands and not yet delivered
    fcRun,          \* running or quit
    fcLast,         \* the last message processed and where its key went
    \* ---- save, reindex and format on save
    svAuto,         \* cfg.AutoFormatOnSave
    svBuf,          \* the lines of the current buffer in the editor
    svDisk,         \* the bytes of the note on disk
    svQueue,        \* BufferWrittenMsg sent to the program and not yet handled
    svCmds,         \* commands returned by handleBufferWritten and not yet run
    svWatch,        \* a write the watcher has seen and not yet indexed
    svIndexed,      \* the content the index holds for the note
    svSaves,        \* writes made by the user
    svNotified,     \* BufferWrittenMsg sent so far
    svFmtWrites,    \* write-backs made by the formatter so far
    svRun,          \* running or fatal
    svLast,         \* the last step
    \* ---- save-as over the files on disk
    saDisk,         \* the content of each path on disk
    saIndexed,      \* the paths the index has a row for
    saCur,          \* App.currentFile
    saBuf,          \* the content of the buffer in the editor
    saRun,          \* running or fatal
    saLast,         \* the last step
    \* ---- cut and paste of a note, and the index operations that follow
    mvDisk,         \* the notes on disk
    mvDb,           \* the index
    mvEvents,       \* debounce timers of the watcher that have not fired
    mvReindex,      \* paths whose BufferWritten reindex has not run
    mvCur,          \* App.currentFile
    mvRun,          \* running, or the kind of fatal error
    mvLast,         \* the last step
    \* ---- the leader and its timeout ticks
    ldLeader,       \* App.leader
    ldWhichKey,     \* the which-key popup has entries
    ldInsert,       \* the editor is in a mode other than Normal
    ldTicks,        \* time left of each tea.Tick not yet delivered, oldest first
    ldQuiet,        \* time since the last key, capped at the timeout
    ldLast,         \* the last step
    \* ---- opening the index database
    opDb,           \* the database file
    opHandle,       \* a DB returned by Open is in use
    opLast,         \* the last step
    \* ---- the editor process on its PTY
    ptFile,         \* the PTY handle: none, open, closed
    ptProc,         \* the editor process: none, running, exited, reaped
    ptSocket,       \* the listen-socket file exists
    ptRows,         \* rows of the PTY window
    ptCols,         \* columns of the PTY window
    ptLast,         \* the last step
    \* ---- the columns of the rendered view
    vwW,            \* App.width
    vwH,            \* App.height
    vwShowTree,     \* the tree is displayed
    vwShowInfo,     \* the info panel is displayed
    vwTreeWidth,    \* cfg.TreeWidth
    vwInfoWidth,    \* cfg.InfoWidth
    vwCols,         \* the columns of the last View
    \* ---- the tree panel
    trAll,          \* Tree.allEntries
    trEntries,      \* Tree.entries, the visible ones
    trCollapsed,    \* the directories whose collapsed flag is set
    trSelected,     \* Tree.selected
    trClipboard,    \* Tree.clipboard
    trCursor,       \* Tree.cursor
    trOffset,       \* Tree.offset
    trFocused,      \* Tree.focused
    trShowHelp,     \* Tree.showHelp
    trLast          \* the last step

fmtVars == <<fmtPc, fmtIn, fmtOnce, fmtTwice>>
navVars == <<currentFile, prevFile, editorFile, navDisk, navOpenOk, navFatal,
             navQuit, navTrace>>

keysVars == <<focused, promptVisible, finderVisible, showSplash, edMode, treeHelp,
              showTree, showInfo, leader, whichKeyShown, pendingKind, appRun, lastMsg,
              keyTo, keyPromptWas, modeCancelled, spaceAfterCancel>>

ixVars == <<ixDisk, db, ixLast, ixWrites>>

wVars == <<wTimers, wDebounce, wClosed, wLoop, wFatalSent, wTreeBy, wErrors, wReports,
          wStopFirst>>

ntVars == <<ntDisk, ntLast>>

\* the groups of the later specifications
rwVars == <<rwPc, rwOrig, rwFile, rwOld, rwNew>>
rnVars == <<rnRenamed, rnPending, rnFatal>>
prVars == <<prVisible, prError, prPending, prCurrent, prSplash, prFinder, prRun, prLast>>
clVars == <<clHas, clPc, clFails, clExecuted, clStderr>>
midVars == <<ntVars, rwVars, rnVars, prVars, clVars>>
lyVars == <<lyW, lyH, lyShowTree, lyShowInfo, lyZen, lySplash, lyEd, lySent, lyPty>>
fcVars == <<fcFocused, fcFlags, fcFinder, fcPrompt, fcSplash, fcShowTree, fcShowInfo, fcZen, fcLeader, fcInsert, fcInFlight, fcRun, fcLast>>
svVars == <<svAuto, svBuf, svDisk, svQueue, svCmds, svWatch, svIndexed, svSaves, svNotified, svFmtWrites, svRun, svLast>>
saVars == <<saDisk, saIndexed, saCur, saBuf, saRun, saLast>>
mvVars == <<mvDisk, mvDb, mvEvents, mvReindex, mvCur, mvRun, mvLast>>
ldVars == <<ldLeader, ldWhichKey, ldInsert, ldTicks, ldQuiet, ldLast>>
opVars == <<opDb, opHandle, opLast>>
ptVars == <<ptFile, ptProc, ptSocket, ptRows, ptCols, ptLast>>
vwVars == <<vwW, vwH, vwShowTree, vwShowInfo, vwTreeWidth, vwInfoWidth, vwCols>>
trVars == <<trAll, trEntries, trCollapsed, trSelected, trClipboard, trCursor, trOffset, trFocused, trShowHelp, trLast>>
lateVars == <<lyVars, fcVars, svVars, saVars, mvVars, ldVars, opVars, ptVars, vwVars, trVars>>
extVars == <<ntVars, rwVars, rnVars, prVars, clVars, lateVars>>

vars == <<fmtVars, navVars, keysVars, ixVars, wVars, extVars>>

\* what each specification leaves alone
fmtFrame == <<navVars, keysVars, ixVars, wVars, extVars>>
navFrame == <<fmtVars, keysVars, ixVars, wVars, extVars>>
keysFrame == <<fmtVars, navVars, ixVars, wVars, extVars>>
ixFrame == <<fmtVars, navVars, keysVars, wVars, extVars>>
wFrame == <<fmtVars, navVars, keysVars, ixVars, extVars>>
coreVars == <<fmtVars, navVars, keysVars, ixVars, wVars>>
ntFrame == <<coreVars, rwVars, rnVars, prVars, clVars, lateVars>>
rwFrame == <<coreVars, ntVars, rnVars, prVars, clVars, lateVars>>
rnFrame == <<fmtVars, navVars, keysVars, wVars, ntVars, rwVars, prVars, clVars, lateVars>>
prFrame == <<fmtVars, navVars, keysVars, wVars, ntVars, rwVars, rnVars, clVars, lateVars>>
clFrame == <<coreVars, ntVars, rwVars, rnVars, prVars, lateVars>>

\* what each specification of the later groups leaves alone
lyFrame == <<fmtVars, navVars, keysVars, ixVars, wVars, ntVars, rwVars, rnVars,
    prVars, clVars, fcVars, svVars, saVars, mvVars, ldVars, opVars, ptVars, vwVars,
    trVars>>
fcFrame == <<fmtVars, navVars, keysVars, ixVars, wVars, ntVars, rwVars, rnVars,
    prVars, clVars, lyVars, svVars, saVars, mvVars, ldVars, opVars, ptVars, vwVars,
    trVars>>
svFrame == <<fmtVars, navVars, keysVars, ixVars, wVars, ntVars, rwVars, rnVars,
    prVars, clVars, lyVars, fcVars, saVars, mvVars, ldVars, opVars, ptVars, vwVars,
    trVars>>
saFrame == <<fmtVars, navVars, keysVars, ixVars, wVars, ntVars, rwVars, rnVars,
    prVars, clVars, lyVars, fcVars, svVars, mvVars, ldVars, opVars, ptVars, vwVars,
    trVars>>
mvFrame == <<fmtVars, navVars, keysVars, ixVars, wVars, ntVars, rwVars, rnVars,
    prVars, clVars, lyVars, fcVars, svVars, saVars, ldVars, opVars, ptVars, vwVars,
    trVars>>
ldFrame == <<fmtVars, navVars, keysVars, ixVars, wVars, ntVars, rwVars, rnVars,
    prVars, clVars, lyVars, fcVars, svVars, saVars, mvVars, opVars, ptVars, vwVars,
    trVars>>
opFrame == <<fmtVars, navVars, keysVars, ixVars, wVars, ntVars, rwVars, rnVars,
    prVars, clVars, lyVars, fcVars, svVars, saVars, mvVars, ldVars, ptVars, vwVars,
    trVars>>
ptFrame == <<fmtVars, navVars, keysVars, ixVars, wVars, ntVars, rwVars, rnVars,
    prVars, clVars, lyVars, fcVars, svVars, saVars, mvVars, ldVars, opVars, vwVars,
    trVars>>
vwFrame == <<fmtVars, navVars, keysVars, ixVars, wVars, ntVars, rwVars, rnVars,
    prVars, clVars, lyVars, fcVars, svVars, saVars, mvVars, ldVars, opVars, ptVars,
    trVars>>
trFrame == <<fmtVars, navVars, keysVars, ixVars, wVars, ntVars, rwVars, rnVars,
    prVars, clVars, lyVars, fcVars, svVars, saVars, mvVars, ldVars, opVars, ptVars,
    vwVars>>

NoFile == ""

\* the values a group of variables keeps while another specification runs
FmtIdle ==
    /\ fmtPc = "in"
    /\ fmtIn = <<>>
    /\ fmtOnce = <<>>
    /\ fmtTwice = <<>>

NavIdle ==
    /\ currentFile = NoFile
    /\ prevFile = NoFile
    /\ editorFile = NoFile
    /\ navDisk = {}
    /\ navOpenOk = TRUE
    /\ navFatal = FALSE
    /\ navQuit = FALSE
    /\ navTrace = <<>>

KeysIdle ==
    /\ focused = "editor"
    /\ promptVisible = FALSE
    /\ finderVisible = FALSE
    /\ showSplash = TRUE
    /\ edMode = "n"
    /\ treeHelp = FALSE
    /\ showTree = TRUE
    /\ showInfo = TRUE
    /\ leader = [active |-> FALSE, keys |-> <<>>, node |-> "nil", showHelp |-> FALSE]
    /\ whichKeyShown = FALSE
    /\ pendingKind = ""
    /\ appRun = "running"
    /\ lastMsg = <<"other", "">>
    /\ keyTo = {}
    /\ keyPromptWas = FALSE
    /\ modeCancelled = FALSE
    /\ spaceAfterCancel = "no"

IxIdle ==
    /\ ixDisk = <<>>
    /\ db = <<>>
    /\ ixLast = <<>>
    /\ ixWrites = 0

WIdle ==
    /\ wTimers = <<>>
    /\ wDebounce = <<>>
    /\ wClosed = FALSE
    /\ wLoop = FALSE
    /\ wFatalSent = FALSE
    /\ wTreeBy = {}
    /\ wErrors = 0
    /\ wReports = 0
    /\ wStopFirst = FALSE

NtIdle ==
    /\ ntDisk = <<>>
    /\ ntLast = <<>>

RwIdle ==
    /\ rwPc = "in"
    /\ rwOrig = <<>>
    /\ rwFile = <<>>
    /\ rwOld = <<>>
    /\ rwNew = <<>>

RnIdle ==
    /\ rnRenamed = <<>>
    /\ rnPending = {}
    /\ rnFatal = FALSE

PrIdle ==
    /\ prVisible = FALSE
    /\ prError = ""
    /\ prPending = <<>>
    /\ prCurrent = ""
    /\ prSplash = TRUE
    /\ prFinder = FALSE
    /\ prRun = "running"
    /\ prLast = <<>>

ClIdle ==
    /\ clHas = {}
    /\ clPc = "open"
    /\ clFails = {}
    /\ clExecuted = <<>>
    /\ clStderr = <<>>

MidIdle == NtIdle /\ RwIdle /\ RnIdle /\ PrIdle /\ ClIdle

LyIdle ==
    /\ lyW = 0
    /\ lyH = 0
    /\ lyShowTree = TRUE
    /\ lyShowInfo = TRUE
    /\ lyZen = FALSE
    /\ lySplash = TRUE
    /\ lyEd = <<0, 0, "new">>
    /\ lySent = <<>>
    /\ lyPty = <<>>

FcIdle ==
    /\ fcFocused = "editor"
    /\ fcFlags = [editor |-> TRUE, tree |-> FALSE, info |-> FALSE]
    /\ fcFinder = FALSE
    /\ fcPrompt = FALSE
    /\ fcSplash = TRUE
    /\ fcShowTree = TRUE
    /\ fcShowInfo = TRUE
    /\ fcZen = FALSE
    /\ fcLeader = "off"
    /\ fcInsert = FALSE
    /\ fcInFlight = {}
    /\ fcRun = "running"
    /\ fcLast = [kind |-> "none"]

SvIdle ==
    /\ svAuto = FALSE
    /\ svBuf = <<>>
    /\ svDisk = <<>>
    /\ svQueue = 0
    /\ svCmds = [index |-> 0, format |-> 0]
    /\ svWatch = FALSE
    /\ svIndexed = <<>>
    /\ svSaves = 0
    /\ svNotified = 0
    /\ svFmtWrites = 0
    /\ svRun = "running"
    /\ svLast = [op |-> "none"]

SaIdle ==
    /\ saDisk = <<>>
    /\ saIndexed = {}
    /\ saCur = ""
    /\ saBuf = "buf"
    /\ saRun = "running"
    /\ saLast = [op |-> "none"]

MvIdle ==
    /\ mvDisk = <<>>
    /\ mvDb = <<>>
    /\ mvEvents = {}
    /\ mvReindex = {}
    /\ mvCur = ""
    /\ mvRun = "running"
    /\ mvLast = [op |-> "none"]

LdIdle ==
    /\ ldLeader = [active |-> FALSE, keys |-> <<>>, node |-> "nil", showHelp |-> FALSE]
    /\ ldWhichKey = FALSE
    /\ ldInsert = FALSE
    /\ ldTicks = <<>>
    /\ ldQuiet = 0
    /\ ldLast = "none"

OpIdle ==
    /\ opDb = [table |-> FALSE, hasKey |-> FALSE, index |-> FALSE, rows |-> <<>>]
    /\ opHandle = FALSE
    /\ opLast = [op |-> "none"]

PtIdle ==
    /\ ptFile = "none"
    /\ ptProc = "none"
    /\ ptSocket = FALSE
    /\ ptRows = 0
    /\ ptCols = 0
    /\ ptLast = [op |-> "none"]

VwIdle ==
    /\ vwW = 0
    /\ vwH = 0
    /\ vwShowTree = FALSE
    /\ vwShowInfo = FALSE
    /\ vwTreeWidth = 0
    /\ vwInfoWidth = 0
    /\ vwCols = [kind |-> "none"]

TrIdle ==
    /\ trAll = <<>>
    /\ trEntries = <<>>
    /\ trCollapsed = {}
    /\ trSelected = {}
    /\ trClipboard = [op |-> "none", paths |-> {}]
    /\ trCursor = 0
    /\ trOffset = 0
    /\ trFocused = FALSE
    /\ trShowHelp = FALSE
    /\ trLast = [op |-> "none"]

LateIdle == LyIdle /\ FcIdle /\ SvIdle /\ SaIdle /\ MvIdle /\ LdIdle /\ OpIdle /\ PtIdle /\ VwIdle /\ TrIdle

ExtIdle == MidIdle /\ LateIdle

CoreIdle == FmtIdle /\ NavIdle /\ KeysIdle /\ IxIdle /\ WIdle

\* the idle values of the groups a later specification leaves alone
LyOthersIdle ==
    FmtIdle /\ NavIdle /\ KeysIdle /\ IxIdle /\ WIdle /\ NtIdle /\ RwIdle /\ RnIdle
    /\ PrIdle /\ ClIdle /\ FcIdle /\ SvIdle /\ SaIdle /\ MvIdle /\ LdIdle /\ OpIdle
    /\ PtIdle /\ VwIdle /\ TrIdle
FcOthersIdle ==
    FmtIdle /\ NavIdle /\ KeysIdle /\ IxIdle /\ WIdle /\ NtIdle /\ RwIdle /\ RnIdle
    /\ PrIdle /\ ClIdle /\ LyIdle /\ SvIdle /\ SaIdle /\ MvIdle /\ LdIdle /\ OpIdle
    /\ PtIdle /\ VwIdle /\ TrIdle
SvOthersIdle ==
    FmtIdle /\ NavIdle /\ KeysIdle /\ IxIdle /\ WIdle /\ NtIdle /\ RwIdle /\ RnIdle
    /\ PrIdle /\ ClIdle /\ LyIdle /\ FcIdle /\ SaIdle /\ MvIdle /\ LdIdle /\ OpIdle
    /\ PtIdle /\ VwIdle /\ TrIdle
SaOthersIdle ==
    FmtIdle /\ NavIdle /\ KeysIdle /\ IxIdle /\ WIdle /\ NtIdle /\ RwIdle /\ RnIdle
    /\ PrIdle /\ ClIdle /\ LyIdle /\ FcIdle /\ SvIdle /\ MvIdle /\ LdIdle /\ OpIdle
    /\ PtIdle /\ VwIdle /\ TrIdle
MvOthersIdle ==
    FmtIdle /\ NavIdle /\ KeysIdle /\ IxIdle /\ WIdle /\ NtIdle /\ RwIdle /\ RnIdle
    /\ PrIdle /\ ClIdle /\ LyIdle /\ FcIdle /\ SvIdle /\ SaIdle /\ LdIdle /\ OpIdle
    /\ PtIdle /\ VwIdle /\ TrIdle
LdOthersIdle ==
    FmtIdle /\ NavIdle /\ KeysIdle /\ IxIdle /\ WIdle /\ NtIdle /\ RwIdle /\ RnIdle
    /\ PrIdle /\ ClIdle /\ LyIdle /\ FcIdle /\ SvIdle /\ SaIdle /\ MvIdle /\ OpIdle
    /\ PtIdle /\ VwIdle /\ TrIdle
OpOthersIdle ==
    FmtIdle /\ NavIdle /\ KeysIdle /\ IxIdle /\ WIdle /\ NtIdle /\ RwIdle /\ RnIdle
    /\ PrIdle /\ ClIdle /\ LyIdle /\ FcIdle /\ SvIdle /\ SaIdle /\ MvIdle /\ LdIdle
    /\ PtIdle /\ VwIdle /\ TrIdle
PtOthersIdle ==
    FmtIdle /\ NavIdle /\ KeysIdle /\ IxIdle /\ WIdle /\ NtIdle /\ RwIdle /\ RnIdle
    /\ PrIdle /\ ClIdle /\ LyIdle /\ FcIdle /\ SvIdle /\ SaIdle /\ MvIdle /\ LdIdle
    /\ OpIdle /\ VwIdle /\ TrIdle
VwOthersIdle ==
    FmtIdle /\ NavIdle /\ KeysIdle /\ IxIdle /\ WIdle /\ NtIdle /\ RwIdle /\ RnIdle
    /\ PrIdle /\ ClIdle /\ LyIdle /\ FcIdle /\ SvIdle /\ SaIdle /\ MvIdle /\ LdIdle
    /\ OpIdle /\ PtIdle /\ TrIdle
TrOthersIdle ==
    FmtIdle /\ NavIdle /\ KeysIdle /\ IxIdle /\ WIdle /\ NtIdle /\ RwIdle /\ RnIdle
    /\ PrIdle /\ ClIdle /\ LyIdle /\ FcIdle /\ SvIdle /\ SaIdle /\ MvIdle /\ LdIdle
    /\ OpIdle /\ PtIdle /\ VwIdle

(***************************************************************************)
(* Strings are sequences of one-character strings, so that trimming,       *)
(* prefix tests and line splitting are computed and not assumed.           *)
(***************************************************************************)
NL == "\n"
CR == "\r"
TAB == "\t"
SP == " "
HASH == "#"
DASH == "-"

\* unicode.IsSpace restricted to the characters of the model
IsSpace(c) == c \in {SP, TAB, NL, CR}

RECURSIVE TrimLeftSet(_, _)
TrimLeftSet(s, cut) ==
    IF s # <<>> /\ Head(s) \in cut THEN TrimLeftSet(Tail(s), cut) ELSE s

RECURSIVE TrimRightSet(_, _)
TrimRightSet(s, cut) ==
    IF s # <<>> /\ s[Len(s)] \in cut
    THEN TrimRightSet(SubSeq(s, 1, Len(s) - 1), cut)
    ELSE s

TrimSpace(s) == TrimLeftSet(TrimRightSet(s, {SP, TAB, NL, CR}), {SP, TAB, NL, CR})

HasPrefix(s, p) == Len(s) >= Len(p) /\ SubSeq(s, 1, Len(p)) = p

RECURSIVE Repeat(_, _)
Repeat(c, n) == IF n <= 0 THEN <<>> ELSE <<c>> \o Repeat(c, n - 1)

Dashes == <<DASH, DASH, DASH>>

\* bufio.ScanLines drops one trailing carriage return of each line
DropCR(line) ==
    IF line # <<>> /\ line[Len(line)] = CR
    THEN SubSeq(line, 1, Len(line) - 1)
    ELSE line

\* bufio.Scanner with ScanLines: the lines of content, without their
\* terminators; a final line without a newline is still a line, and a final
\* newline opens no empty line.
RECURSIVE ScanLinesFrom(_, _)
ScanLinesFrom(content, cur) ==
    IF content = <<>>
    THEN IF cur = <<>> THEN <<>> ELSE <<DropCR(cur)>>
    ELSE IF Head(content) = NL
         THEN <<DropCR(cur)>> \o ScanLinesFrom(Tail(content), <<>>)
         ELSE ScanLinesFrom(Tail(content), Append(cur, Head(content)))

ScanLines(content) == ScanLinesFrom(content, <<>>)

\* strings.Join(lines, "\n")
RECURSIVE JoinLines(_)
JoinLines(lines) ==
    IF lines = <<>> THEN <<>>
    ELSE IF Len(lines) = 1 THEN lines[1]
    ELSE lines[1] \o <<NL>> \o JoinLines(Tail(lines))

isHeading(line) == HasPrefix(TrimLeftSet(line, {SP}), <<HASH>>)

RECURSIVE HeadingLevel(_)
HeadingLevel(trimmed) ==
    IF trimmed # <<>> /\ Head(trimmed) = HASH
    THEN 1 + HeadingLevel(Tail(trimmed))
    ELSE 0

\* the cutset of the trailing-marker trim in normalizeHeading
HeadingTrailCut == {HASH, SP}

normalizeHeading(line) ==
    LET trimmed == TrimLeftSet(line, {SP})
        level == HeadingLevel(trimmed)
    IN  IF level > 6 \/ level = 0
        THEN line
        ELSE LET text0 == TrimSpace(SubSeq(trimmed, level + 1, Len(trimmed)))
                 text1 == TrimSpace(TrimRightSet(text0, HeadingTrailCut))
             IN  IF text1 = <<>>
                 THEN Repeat(HASH, level)
                 ELSE Repeat(HASH, level) \o <<SP>> \o text1

\* the first loop of Format: frontmatter lines verbatim, every other line
\* right-trimmed and, when a heading, normalised
RECURSIVE FormatScan(_, _, _)
FormatScan(lines, lineNum, inFrontmatter) ==
    IF lines = <<>> THEN <<>>
    ELSE LET line == Head(lines)
         IN  IF lineNum = 1 /\ TrimSpace(line) = Dashes
             THEN <<line>> \o FormatScan(Tail(lines), lineNum + 1, TRUE)
             ELSE IF inFrontmatter
             THEN <<line>> \o FormatScan(Tail(lines), lineNum + 1,
                                         TrimSpace(line) # Dashes)
             ELSE LET t == TrimRightSet(line, {SP, TAB})
                      h == IF isHeading(t) THEN normalizeHeading(t) ELSE t
                  IN  <<h>> \o FormatScan(Tail(lines), lineNum + 1, FALSE)

RECURSIVE NormalizeFrom(_, _, _, _, _)
NormalizeFrom(lines, i, result, consecutiveBlanks, inFrontmatter) ==
    IF i > Len(lines) THEN result
    ELSE LET line == lines[i]
         IN  IF i = 1 /\ TrimSpace(line) = Dashes
             THEN NormalizeFrom(lines, i + 1, Append(result, line), 0, TRUE)
             ELSE IF inFrontmatter
             THEN NormalizeFrom(lines, i + 1, Append(result, line), 0,
                                TrimSpace(line) # Dashes)
             ELSE IF TrimSpace(line) = <<>>
             THEN NormalizeFrom(lines, i + 1,
                                IF consecutiveBlanks + 1 <= 2
                                THEN Append(result, line) ELSE result,
                                consecutiveBlanks + 1, FALSE)
             ELSE LET needBlank ==
                          /\ isHeading(line)
                          /\ Len(result) > 0
                          /\ TrimSpace(result[Len(result)]) # <<>>
                          /\ ~HasPrefix(TrimSpace(result[Len(result)]), Dashes)
                      r2 == IF needBlank THEN Append(result, <<>>) ELSE result
                  IN  NormalizeFrom(lines, i + 1, Append(r2, line), 0, FALSE)

normalizeBlankLines(lines) == NormalizeFrom(lines, 1, <<>>, 0, FALSE)

\* Format with runs of blank lines collapsed to one line instead of two
FormatOneBlank(content) ==
    LET lines == normalizeBlankLines(normalizeBlankLines(
                    FormatScan(ScanLines(content), 1, FALSE)))
        keep == {i \in 1..Len(lines) :
                    ~(i > 1 /\ TrimSpace(lines[i]) = <<>>
                            /\ TrimSpace(lines[i - 1]) = <<>>)}
        pick[i \in 0..Len(lines)] ==
            IF i = 0 THEN <<>>
            ELSE IF i \in keep THEN Append(pick[i - 1], lines[i]) ELSE pick[i - 1]
    IN  TrimRightSet(JoinLines(pick[Len(lines)]), {NL}) \o <<NL>>

Format(content) ==
    LET lines == normalizeBlankLines(FormatScan(ScanLines(content), 1, FALSE))
    IN  TrimRightSet(JoinLines(lines), {NL}) \o <<NL>>

(***************************************************************************)
(* The formatter harness: an input is drawn, Format is applied to it, and  *)
(* Format is applied to the result.                                        *)
(***************************************************************************)
MaxRawLen == 3
MaxPoolLines == 3

FmtAlphabet == {HASH, SP, TAB, "a", DASH, NL, CR}

RECURSIVE SeqsUpTo(_, _)
SeqsUpTo(S, n) ==
    IF n = 0 THEN {<<>>}
    ELSE LET shorter == SeqsUpTo(S, n - 1)
         IN  shorter \cup {Append(s, c) : s \in {t \in shorter : Len(t) = n - 1}, c \in S}

\* lines that exercise frontmatter, headings, blank runs and trailing space
FmtLinePool ==
    { Dashes,
      <<>>,
      <<SP>>,
      <<"a">>,
      <<"a", SP>>,
      <<HASH, "a">>,
      <<HASH, HASH, SP, SP, "a", SP, HASH>>,
      <<HASH, "a", HASH, TAB, HASH>>,
      <<"a", CR>> }

FmtInputs ==
    SeqsUpTo(FmtAlphabet, MaxRawLen)
      \cup { JoinLines(ls) \o tail :
                ls \in SeqsUpTo(FmtLinePool, MaxPoolLines), tail \in {<<>>, <<NL>>} }

FmtInit ==
    /\ fmtPc = "in"
    /\ fmtIn \in FmtInputs
    /\ fmtOnce = <<>>
    /\ fmtTwice = <<>>

FormatOnce ==
    /\ fmtPc = "in"
    /\ fmtOnce' = Format(fmtIn)
    /\ fmtPc' = "once"
    /\ UNCHANGED <<fmtIn, fmtTwice, fmtFrame>>

FormatTwice ==
    /\ fmtPc = "once"
    /\ fmtTwice' = Format(fmtOnce)
    /\ fmtPc' = "twice"
    /\ UNCHANGED <<fmtIn, fmtOnce, fmtFrame>>

NextFormat ==
    \/ FormatOnce
    \/ FormatTwice

InitFormat == FmtInit /\ NavIdle /\ KeysIdle /\ IxIdle /\ WIdle /\ ExtIdle

SpecFormat == InitFormat /\ [][NextFormat]_vars

(***************************************************************************)
(* Navigation history: navigateTo and GoBack of the App coordinator.       *)
(***************************************************************************)
NavNotes == {"a.md", "b.md", "c.md"}

\* how many processed operations navTrace remembers
TraceLen == 3

Remember(trace, op) ==
    IF Len(trace) < TraceLen THEN Append(trace, op) ELSE Append(Tail(trace), op)

\* after construction the splash is showing and no note is open
NavInit ==
    /\ currentFile = NoFile
    /\ prevFile = NoFile
    /\ editorFile = NoFile
    /\ navDisk \in SUBSET NavNotes
    /\ navOpenOk = TRUE
    /\ navFatal = FALSE
    /\ navQuit = FALSE
    /\ navTrace = <<>>

\* the history update at the head of navigateTo
NavPrevNoUpdate(cur, prev, relPath) == prev

NavPrevAfter(cur, prev, relPath) ==
    IF cur # NoFile /\ cur # relPath THEN cur ELSE prev

\* navigateTo(relPath), called with the given currentFile and prevFile; ok is
\* the outcome of the open_file RPC (openInEditor posts a fatal error when it
\* fails and navigateTo goes on)
NavigateTo(cur, prev, relPath, ok) ==
    /\ prevFile' = NavPrevAfter(cur, prev, relPath)
    /\ editorFile' = IF ok THEN relPath ELSE editorFile
    /\ navOpenOk' = ok
    /\ navFatal' = (navFatal \/ ~ok)
    /\ currentFile' = relPath

\* panel.FileSelectedMsg: navigateTo(msg.Path)
FileSelected(p) ==
    /\ ~navQuit
    /\ \E ok \in BOOLEAN : NavigateTo(currentFile, prevFile, p, ok)
    /\ navTrace' = Remember(navTrace, <<"nav", p>>)
    /\ UNCHANGED <<navDisk, navQuit, navFrame>>

\* editor.GoBackMsg: GoBack()
GoBack ==
    /\ ~navQuit
    /\ navTrace' = Remember(navTrace, <<"back", NoFile>>)
    /\ IF prevFile = NoFile
       THEN UNCHANGED <<currentFile, prevFile, editorFile, navOpenOk, navFatal>>
       ELSE IF prevFile \notin navDisk
       THEN /\ prevFile' = NoFile
            /\ UNCHANGED <<currentFile, editorFile, navOpenOk, navFatal>>
       ELSE \E ok \in BOOLEAN : NavigateTo(NoFile, currentFile, prevFile, ok)
    /\ UNCHANGED <<navDisk, navQuit, navFrame>>

\* showSplash (a note closed, or the open note deleted): no note is open;
\* a failing LoadSplashBuffer RPC posts a fatal error and changes nothing
NavShowSplash ==
    /\ ~navQuit
    /\ navTrace' = Remember(navTrace, <<"splash", NoFile>>)
    /\ \E ok \in BOOLEAN :
         IF ok
         THEN /\ currentFile' = NoFile
              /\ editorFile' = NoFile
              /\ UNCHANGED navFatal
         ELSE /\ navFatal' = TRUE
              /\ UNCHANGED <<currentFile, editorFile>>
    /\ UNCHANGED <<prevFile, navDisk, navOpenOk, navQuit, navFrame>>

\* a note appears on disk or disappears from it
NavDiskChange(p) ==
    /\ ~navQuit
    /\ navDisk' = IF p \in navDisk THEN navDisk \ {p} ELSE navDisk \cup {p}
    /\ navTrace' = Remember(navTrace, <<"disk", p>>)
    /\ UNCHANGED <<currentFile, prevFile, editorFile, navOpenOk, navFatal, navQuit,
                   navFrame>>

\* fatalErrorMsg reaches the loop: the program quits
NavFatalQuit ==
    /\ navFatal /\ ~navQuit
    /\ navQuit' = TRUE
    /\ UNCHANGED <<currentFile, prevFile, editorFile, navDisk, navOpenOk, navFatal,
                   navTrace, navFrame>>

NextNav ==
    \/ \E p \in NavNotes : FileSelected(p)
    \/ GoBack
    \/ NavShowSplash
    \/ \E p \in NavNotes : NavDiskChange(p)
    \/ NavFatalQuit

InitNav == NavInit /\ FmtIdle /\ KeysIdle /\ IxIdle /\ WIdle /\ ExtIdle

SpecNav == InitNav /\ [][NextNav]_vars

\* the loop has just processed navigate_to(x), navigate_to(y), go_back()
NavThenBack(x, y) ==
    /\ Len(navTrace) >= 3
    /\ SubSeq(navTrace, Len(navTrace) - 2, Len(navTrace))
           = << <<"nav", x>>, <<"nav", y>>, <<"back", NoFile>> >>

\* C8 as stated: for any notes x and y, navigate_to(x), navigate_to(y),
\* go_back() opens x (when x still exists) and leaves current_file = x and
\* prev_file = y.  "Opens x" is read as: the editor shows x whenever the
\* open_file RPC made by go_back succeeded.
C8_GoBackAnyNotes ==
    \A x, y \in NavNotes :
        (NavThenBack(x, y) /\ x \in navDisk)
            => /\ currentFile = x
               /\ prevFile = y
               /\ (navOpenOk => editorFile = x)

\* C8 amended: for distinct notes x and y, navigate_to(x), navigate_to(y),
\* go_back() (x still on disk) leaves current_file = x and prev_file = y, and
\* the editor has x open whenever the open_file RPC of go_back succeeded.
C8_GoBackDistinct ==
    \A x, y \in NavNotes :
        (NavThenBack(x, y) /\ x \in navDisk /\ x # y)
            => /\ currentFile = x
               /\ prevFile = y
               /\ (navOpenOk => editorFile = x)

C8_Witness ==
    /\ NavThenBack("a.md", "b.md")
    /\ "a.md" \in navDisk
    /\ navOpenOk
    /\ editorFile = "a.md"

(***************************************************************************)
(* Key routing, overlays, focus and the leader state machine of the App    *)
(* coordinator.  The handlers are projected on the variables of this       *)
(* group: what navigateTo does to the history is in SpecNav.               *)
(***************************************************************************)
\* the keys of tea.KeyMsg that the model presses
Keys == {" ", "n", "v", "t", "?", "esc", "enter", "ctrl+c", "ctrl+h", "ctrl+l"}

\* editor.ModeNormal and one other mode
ModeNormal == "n"
Modes == {"n", "i"}

\* newBindings, restricted to Keys: the groups under the root and the leaves
LeaderGroups == {"n", "t", "v"}

LeaderLeaves ==
    { <<"root", " ", "ToggleFinder">>,
      <<"n", "n", "CreateBlankNote">>,
      <<"v", "t", "ToggleTree">> }

LeafAction(node, key) == (CHOOSE l \in LeaderLeaves : l[1] = node /\ l[2] = key)[3]

\* the state handleLeaderKey sets when Space activates the leader
LeaderStartKeepKeys == [leader EXCEPT !.active = TRUE, !.node = "root", !.showHelp = FALSE]

LeaderStart == [active |-> TRUE, keys |-> <<>>, node |-> "root", showHelp |-> FALSE]

\* handleLeaderKey: whether the key is consumed, the leader state after it and
\* the leaf action to run
handleLeaderKey(key) ==
    IF ~leader.active
    THEN IF key # " " \/ (focused = "editor" /\ edMode # ModeNormal)
         THEN [consumed |-> FALSE, leader |-> leader, act |-> "none"]
         ELSE [consumed |-> TRUE, leader |-> LeaderStart, act |-> "none"]
    ELSE LET keys2 == Append(leader.keys, key)
         IN  IF leader.node = "root" /\ key \in LeaderGroups
             THEN [consumed |-> TRUE,
                   leader |-> [active |-> TRUE, keys |-> keys2, node |-> key,
                               showHelp |-> FALSE],
                   act |-> "none"]
             ELSE IF \E l \in LeaderLeaves : l[1] = leader.node /\ l[2] = key
             THEN [consumed |-> TRUE,
                   leader |-> [leader EXCEPT !.active = FALSE, !.keys = keys2,
                                             !.showHelp = FALSE],
                   act |-> LeafAction(leader.node, key)]
             ELSE [consumed |-> TRUE,
                   leader |-> [leader EXCEPT !.active = FALSE, !.keys = keys2,
                                             !.showHelp = FALSE],
                   act |-> "none"]

\* cancelLeader
cancelLeader == [leader EXCEPT !.active = FALSE, !.showHelp = FALSE]

\* updateWhichKey: the popup has entries iff help is on (the node is never nil)
updateWhichKey(l) == l.showHelp /\ l.node # "nil"

\* the overlay tests at the head of the KeyMsg case, mutated order
RouteOfFinderFirst(key) ==
    IF key = "ctrl+c" THEN "quit"
    ELSE IF finderVisible THEN "finder"
    ELSE IF promptVisible THEN "prompt"
    ELSE IF showSplash /\ focused = "editor" THEN "splash"
    ELSE "main"

\* the overlay tests at the head of the KeyMsg case
RouteOf(key) ==
    IF key = "ctrl+c" THEN "quit"
    ELSE IF promptVisible THEN "prompt"
    ELSE IF finderVisible THEN "finder"
    ELSE IF showSplash /\ focused = "editor" THEN "splash"
    ELSE "main"

\* the focus after a leaf action (ToggleFinder, ToggleTree)
FocusAfterLeaf(act) ==
    CASE act = "ToggleFinder" -> IF finderVisible THEN "editor" ELSE "finder"
      [] act = "ToggleTree" -> IF showTree /\ focused = "tree" THEN "editor" ELSE focused
      [] OTHER -> focused

\* focusLeft and focusRight (zen mode is never entered with these keys)
focusLeft ==
    CASE focused = "editor" -> IF showTree THEN "tree" ELSE focused
      [] focused = "info" -> "editor"
      [] OTHER -> focused

focusRight ==
    CASE focused = "editor" -> IF showInfo THEN "info" ELSE focused
      [] focused = "tree" -> "editor"
      [] OTHER -> focused

\* whether a Space pressed now reaches the leader and is accepted by it
LeaderAccepts ==
    /\ ~promptVisible
    /\ ~finderVisible
    /\ ~(focused = "tree" /\ treeHelp)
    /\ (focused # "editor" \/ edMode = ModeNormal)

\* the ghost record of a processed message that is not a key
NotAKey(kind, arg) ==
    /\ lastMsg' = <<kind, arg>>
    /\ keyTo' = {}
    /\ keyPromptWas' = FALSE
    /\ spaceAfterCancel' = "no"

\* the values of the group before a key is processed
KeyBefore ==
    [focused |-> focused, promptVisible |-> promptVisible,
     finderVisible |-> finderVisible, showSplash |-> showSplash,
     treeHelp |-> treeHelp, showTree |-> showTree, showInfo |-> showInfo,
     leader |-> leader, whichKeyShown |-> whichKeyShown, appRun |-> appRun,
     keyTo |-> {}]

\* a key consumed by the leader: the new leader state, the leaf action run,
\* then updateWhichKey
LeaderConsumed(lk, rpcOk) ==
    LET act == lk.act
    IN  [KeyBefore EXCEPT
            !.leader = lk.leader,
            !.whichKeyShown = updateWhichKey(lk.leader),
            !.focused = FocusAfterLeaf(act),
            !.finderVisible = IF act = "ToggleFinder" THEN ~finderVisible
                              ELSE finderVisible,
            !.showTree = IF act = "ToggleTree" THEN ~showTree ELSE showTree,
            !.showSplash = IF act = "CreateBlankNote" /\ rpcOk THEN FALSE
                           ELSE showSplash,
            !.appRun = IF act = "CreateBlankNote" /\ ~rpcOk THEN "fatal"
                       ELSE appRun,
            !.keyTo = {"leader"}]

\* the second switch of Update: the key goes to the focused panel
ToFocusedPanel(key, tried) ==
    CASE focused = "tree" ->
            [KeyBefore EXCEPT
                !.treeHelp = IF treeHelp THEN FALSE ELSE (key = "?"),
                !.keyTo = tried \cup {"tree"}]
      [] focused = "info" -> [KeyBefore EXCEPT !.keyTo = tried \cup {"info"}]
      [] OTHER -> [KeyBefore EXCEPT !.keyTo = tried \cup {"editor"}]

\* the KeyMsg case of Update; hasItem: the finder has a result under the
\* cursor, rpcOk: the editor RPC made by a leaf action succeeds
KeyResult(key, hasItem, rpcOk) ==
    LET route == RouteOf(key)
        lk == handleLeaderKey(key)
    IN  CASE route = "quit" -> [KeyBefore EXCEPT !.appRun = "quit"]
          [] route = "prompt" ->
                [KeyBefore EXCEPT
                    !.promptVisible = (key \notin {"enter", "esc"}),
                    !.keyTo = {"prompt"}]
          [] route = "finder" ->
                [KeyBefore EXCEPT
                    !.finderVisible = IF key = "esc" THEN FALSE
                                      ELSE IF key = "enter" THEN ~hasItem
                                      ELSE TRUE,
                    !.keyTo = {"finder"}]
          [] route = "splash" ->
                IF key = "esc" THEN KeyBefore
                ELSE IF lk.consumed THEN LeaderConsumed(lk, rpcOk)
                ELSE [KeyBefore EXCEPT !.keyTo = {"leader"}]
          [] OTHER ->
                IF key = "ctrl+h" THEN [KeyBefore EXCEPT !.focused = focusLeft]
                ELSE IF key = "ctrl+l" THEN [KeyBefore EXCEPT !.focused = focusRight]
                ELSE IF /\ key = "esc"
                        /\ focused \in {"tree", "info"}
                        /\ ~(focused = "tree" /\ treeHelp)
                THEN [KeyBefore EXCEPT !.focused = "editor"]
                ELSE IF (focused # "tree" \/ ~treeHelp) /\ lk.consumed
                THEN LeaderConsumed(lk, rpcOk)
                ELSE ToFocusedPanel(key, IF focused # "tree" \/ ~treeHelp
                                         THEN {"leader"} ELSE {})

\* the outcomes that matter to a key: whether the finder has a result under
\* the cursor (Enter in the finder), whether NewBuffer succeeds (a key that
\* completes the CreateBlankNote binding)
FinderHasItem(key) ==
    IF RouteOf(key) = "finder" /\ key = "enter" THEN BOOLEAN ELSE {TRUE}

LeafRpcOk(key) ==
    IF handleLeaderKey(key).act = "CreateBlankNote" THEN BOOLEAN ELSE {TRUE}

KeysInit ==
    /\ focused = "editor"
    /\ promptVisible = FALSE
    /\ finderVisible = FALSE
    /\ showSplash = TRUE
    /\ edMode = ModeNormal
    /\ treeHelp = FALSE
    /\ showTree \in BOOLEAN
    /\ showInfo \in BOOLEAN
    /\ leader = [active |-> FALSE, keys |-> <<>>, node |-> "nil", showHelp |-> FALSE]
    /\ whichKeyShown = FALSE
    /\ pendingKind = ""
    /\ appRun = "running"
    /\ lastMsg = <<"other", "">>
    /\ keyTo = {}
    /\ keyPromptWas = FALSE
    /\ modeCancelled = FALSE
    /\ spaceAfterCancel = "no"

\* Update, case tea.KeyMsg
KeyMsg(key) ==
    /\ appRun # "quit"
    /\ \E hasItem \in FinderHasItem(key), rpcOk \in LeafRpcOk(key) :
         LET r == KeyResult(key, hasItem, rpcOk)
         IN  /\ focused' = r.focused
             /\ promptVisible' = r.promptVisible
             /\ finderVisible' = r.finderVisible
             /\ showSplash' = r.showSplash
             /\ treeHelp' = r.treeHelp
             /\ showTree' = r.showTree
             /\ showInfo' = r.showInfo
             /\ leader' = r.leader
             /\ whichKeyShown' = r.whichKeyShown
             /\ appRun' = r.appRun
             /\ keyTo' = r.keyTo
    /\ lastMsg' = <<"key", "">>
    /\ keyPromptWas' = promptVisible
    /\ modeCancelled' = IF key = " " THEN FALSE ELSE modeCancelled
    /\ spaceAfterCancel' = IF key = " " /\ modeCancelled
                           THEN IF LeaderAccepts THEN "accepting" ELSE "refusing"
                           ELSE "no"
    /\ UNCHANGED <<edMode, pendingKind, keysFrame>>

\* Update, case leaderTimeoutMsg: handleLeaderTimeout then updateWhichKey
LeaderTimeout ==
    /\ appRun # "quit"
    /\ leader' = IF leader.active THEN [leader EXCEPT !.showHelp = TRUE] ELSE leader
    /\ whichKeyShown' = updateWhichKey(leader')
    /\ NotAKey("other", "")
    /\ UNCHANGED <<focused, promptVisible, finderVisible, showSplash, edMode, treeHelp,
                   showTree, showInfo, pendingKind, appRun, modeCancelled, keysFrame>>

\* Update, case editor.ModeChangedMsg, and the editor's own handling of it
ModeChanged(m) ==
    /\ appRun # "quit"
    /\ leader' = IF m # ModeNormal THEN cancelLeader ELSE leader
    /\ whichKeyShown' = IF m # ModeNormal THEN updateWhichKey(leader')
                        ELSE whichKeyShown
    /\ edMode' = m
    /\ modeCancelled' = IF m # ModeNormal /\ leader.active THEN TRUE
                        ELSE modeCancelled
    /\ NotAKey("mode", m)
    /\ UNCHANGED <<focused, promptVisible, finderVisible, showSplash, treeHelp,
                   showTree, showInfo, pendingKind, appRun, keysFrame>>

\* showSplash as seen by this group: a failing RPC posts a fatal error
SplashShown(rpcOk) ==
    /\ showSplash' = IF rpcOk THEN TRUE ELSE showSplash
    /\ focused' = IF rpcOk THEN "editor" ELSE focused
    /\ appRun' = IF rpcOk THEN appRun ELSE "fatal"

\* Update, cases SaveUnnamedMsg (TreeNewNoteMsg and TreeRenameNoteMsg alike),
\* TreeDeleteNoteMsg (TreeDeleteNotesMsg alike), FinderCreateRequestMsg
ShowPrompt(kind) ==
    /\ appRun # "quit"
    /\ pendingKind' = kind
    /\ promptVisible' = TRUE
    /\ NotAKey("other", "")
    /\ UNCHANGED <<focused, finderVisible, showSplash, edMode, treeHelp, showTree,
                   showInfo, leader, whichKeyShown, appRun, modeCancelled, keysFrame>>

\* Update, case editor.NoteClosedMsg; unnamed: a save of a buffer without a file
NoteClosed ==
    /\ appRun # "quit"
    /\ \E unnamed, rpcOk \in BOOLEAN :
         IF promptVisible
         THEN /\ pendingKind' = "close"
              /\ UNCHANGED <<promptVisible, showSplash, focused, appRun>>
         ELSE IF unnamed
         THEN /\ pendingKind' = "close"
              /\ promptVisible' = TRUE
              /\ UNCHANGED <<showSplash, focused, appRun>>
         ELSE /\ SplashShown(rpcOk)
              /\ UNCHANGED <<pendingKind, promptVisible>>
    /\ NotAKey("other", "")
    /\ UNCHANGED <<finderVisible, edMode, treeHelp, showTree, showInfo, leader,
                   whichKeyShown, modeCancelled, keysFrame>>

\* Update, case panel.PromptResultMsg: handlePromptResult; ok: the value is
\* accepted (for finder-create: it is "yes")
PromptResult ==
    /\ appRun # "quit"
    /\ \E ok, rpcOk \in BOOLEAN :
         CASE pendingKind = "save" ->
                /\ promptVisible' = IF ok THEN FALSE ELSE promptVisible
                /\ pendingKind' = IF ok THEN "" ELSE pendingKind
                /\ UNCHANGED <<finderVisible, focused, showSplash, appRun>>
           [] pendingKind = "close" ->
                /\ promptVisible' = IF ok THEN FALSE ELSE promptVisible
                /\ pendingKind' = IF ok THEN "" ELSE pendingKind
                /\ IF ok THEN SplashShown(rpcOk)
                   ELSE UNCHANGED <<focused, showSplash, appRun>>
                /\ UNCHANGED finderVisible
           [] pendingKind = "delete-note" ->
                /\ promptVisible' = FALSE
                /\ pendingKind' = ""
                /\ IF ok THEN SplashShown(rpcOk)
                   ELSE UNCHANGED <<focused, showSplash, appRun>>
                /\ UNCHANGED finderVisible
           [] pendingKind = "finder-create" ->
                /\ promptVisible' = FALSE
                /\ pendingKind' = ""
                /\ finderVisible' = IF ok THEN FALSE ELSE finderVisible
                /\ focused' = IF ok THEN "editor" ELSE focused
                /\ showSplash' = IF ok /\ rpcOk THEN FALSE ELSE showSplash
                /\ UNCHANGED appRun
           [] OTHER ->
                UNCHANGED <<promptVisible, pendingKind, finderVisible, focused,
                            showSplash, appRun>>
    /\ NotAKey("other", "")
    /\ UNCHANGED <<edMode, treeHelp, showTree, showInfo, leader, whichKeyShown,
                   modeCancelled, keysFrame>>

\* Update, case panel.PromptCancelledMsg: handlePromptCancelled
PromptCancelled ==
    /\ appRun # "quit"
    /\ pendingKind' = ""
    /\ \E rpcOk \in BOOLEAN :
         IF pendingKind = "close" THEN SplashShown(rpcOk)
         ELSE UNCHANGED <<focused, showSplash, appRun>>
    /\ NotAKey("other", "")
    /\ UNCHANGED <<promptVisible, finderVisible, edMode, treeHelp, showTree, showInfo,
                   leader, whichKeyShown, modeCancelled, keysFrame>>

\* Update, cases panel.FileSelectedMsg and panel.FinderResultMsg: navigateTo
\* then setFocus(focusEditor); a failing open_file posts a fatal error
NoteOpened ==
    /\ appRun # "quit"
    /\ \E rpcOk \in BOOLEAN :
         /\ showSplash' = IF rpcOk THEN FALSE ELSE showSplash
         /\ appRun' = IF rpcOk THEN appRun ELSE "fatal"
    /\ focused' = "editor"
    /\ NotAKey("other", "")
    /\ UNCHANGED <<promptVisible, finderVisible, edMode, treeHelp, showTree, showInfo,
                   leader, whichKeyShown, pendingKind, modeCancelled, keysFrame>>

\* Update, case panel.FinderClosedMsg
FinderClosed ==
    /\ appRun # "quit"
    /\ focused' = "editor"
    /\ NotAKey("other", "")
    /\ UNCHANGED <<promptVisible, finderVisible, showSplash, edMode, treeHelp, showTree,
                   showInfo, leader, whichKeyShown, pendingKind, appRun, modeCancelled,
                   keysFrame>>

\* Update, case fatalErrorMsg
KeysFatalQuit ==
    /\ appRun = "fatal"
    /\ appRun' = "quit"
    /\ NotAKey("other", "")
    /\ UNCHANGED <<focused, promptVisible, finderVisible, showSplash, edMode, treeHelp,
                   showTree, showInfo, leader, whichKeyShown, pendingKind,
                   modeCancelled, keysFrame>>

NextKeys ==
    \/ \E key \in Keys : KeyMsg(key)
    \/ LeaderTimeout
    \/ \E m \in Modes : ModeChanged(m)
    \/ \E kind \in {"save", "delete-note", "finder-create"} :
          ShowPrompt(kind)
    \/ NoteClosed
    \/ PromptResult
    \/ PromptCancelled
    \/ NoteOpened
    \/ FinderClosed
    \/ KeysFatalQuit

InitKeys == KeysInit /\ FmtIdle /\ NavIdle /\ IxIdle /\ WIdle /\ ExtIdle

SpecKeys == InitKeys /\ [][NextKeys]_vars

\* C6: whenever the prompt overlay is visible, a key event is delivered to
\* the prompt only: never to the finder, the editor, the tree or info panel,
\* or the leader state machine.
C6_PromptCapturesKeys ==
    (lastMsg[1] = "key" /\ keyPromptWas) => keyTo \subseteq {"prompt"}

\* a key was delivered to the prompt while the finder was visible under it
C6_Witness ==
    /\ lastMsg[1] = "key"
    /\ keyPromptWas
    /\ keyTo = {"prompt"}
    /\ finderVisible

\* the leader is inactive and the which-key popup hidden right after a mode
\* change away from Normal
CancelledByModeChange ==
    (lastMsg[1] = "mode" /\ lastMsg[2] # ModeNormal)
        => (~leader.active /\ ~leader.showHelp /\ ~whichKeyShown)

\* a leader sequence has just started: active, at the root, no keys, no help
FreshSequence ==
    /\ leader.active
    /\ leader.node = "root"
    /\ leader.keys = <<>>
    /\ ~leader.showHelp

\* C7 as stated: a mode change to a mode other than Normal leaves the leader
\* inactive with the which-key help hidden, and the next Space key press after
\* such a cancellation starts a fresh leader sequence at the root of the
\* binding tree with no accumulated keys.
C7_NextSpaceStartsFresh ==
    /\ CancelledByModeChange
    /\ spaceAfterCancel # "no" => FreshSequence

\* C7 amended: ... and the next Space key press after such a cancellation, when
\* it is pressed with no prompt or finder overlay visible, without the tree
\* help showing under tree focus, and with the editor in Normal mode or the
\* focus on another panel, starts a fresh leader sequence at the root with no
\* accumulated keys.
C7_AcceptedSpaceStartsFresh ==
    /\ CancelledByModeChange
    /\ spaceAfterCancel = "accepting" => FreshSequence

\* a sequence with accumulated keys was cancelled by a mode change and the
\* next Space started again at the root
C7_Witness ==
    /\ spaceAfterCancel = "accepting"
    /\ leader.active
    /\ leader.keys = <<>>
    /\ edMode # ModeNormal

\* the key has a binding at the node: a group under the root or a leaf
BoundAt(node, key) ==
    \/ node = "root" /\ key \in LeaderGroups
    \/ \E l \in LeaderLeaves : l[1] = node /\ l[2] = key

\* C33: while the leader state machine is active, any key that matches no
\* binding at the current node of the binding tree cancels it: after the key
\* the leader is inactive and the which-key help is hidden.
C33_NonMatchingKeyCancels ==
    [][\A key \in Keys :
          (leader.active /\ ~BoundAt(leader.node, key) /\ KeyMsg(key))
              => (~leader'.active /\ ~leader'.showHelp /\ ~whichKeyShown')]_vars

(***************************************************************************)
(* The index store and the indexer.  A path is a string, Dirs x Names; a   *)
(* file's content is named by an identifier and Parse gives what the       *)
(* Markdown parser extracts from it.  SQL statements fail only when they   *)
(* break a constraint of the schema, and an indexer call runs from its     *)
(* first statement to its last without another call in between.            *)
(***************************************************************************)
Dirs == {"", "d/"}
Names == {"a.md", "new-note.md", "New-Note.md", "c.md"}
AllPaths == {d \o n : d \in Dirs, n \in Names}

\* the notes the indexer is run on
IxPaths == {"a.md", "new-note.md", "d/New-Note.md"}

\* filepath.Base and strings.ToLower over these names and link targets
Base(p) ==
    IF \E d \in Dirs, n \in Names : p = d \o n
    THEN CHOOSE n \in Names : \E d \in Dirs : p = d \o n
    ELSE p

ToLower(s) ==
    CASE s = "New-Note.md" -> "new-note.md"
      [] s = "New-Note" -> "new-note"
      [] s = "Yes" -> "yes"
      [] OTHER -> s

InSubdir(p) == \E n \in Names : p = "d/" \o n

\* strings.HasSuffix(target, ".md") over the link targets of the model
HasSuffixMd(s) == s \in AllPaths

ResolveWikiLinkTarget(target) ==
    IF target = "" THEN ""
    ELSE IF HasSuffixMd(target) THEN target
    ELSE target \o ".md"

canonicalBasenameKey(path) == ToLower(Base(path))

\* file contents and what Parser.Parse finds in them
IxContents == {"plain", "toUpper", "toLower"}
Missing == "missing"

Parse(content) ==
    CASE content = "toUpper" ->
            [tags |-> <<"x", "x">>, headings |-> <<>>, links |-> <<"New-Note">>]
      [] content = "toLower" ->
            [tags |-> <<>>, headings |-> <<"h">>, links |-> <<"new-note", "a.md">>]
      [] content = "oneLink" ->
            [tags |-> <<>>, headings |-> <<>>, links |-> <<"new-note">>]
      [] content = "twoLinks" ->
            [tags |-> <<>>, headings |-> <<>>, links |-> <<"new-note", "new-note">>]
      [] content = "oneLinkC" ->
            [tags |-> <<>>, headings |-> <<>>, links |-> <<"c">>]
      [] content = "twoLinksC" ->
            [tags |-> <<>>, headings |-> <<>>, links |-> <<"c", "c">>]
      [] OTHER -> [tags |-> <<>>, headings |-> <<>>, links |-> <<>>]

\* fmt.Sprintf("%x", sha256.Sum256(content)): injective, never empty
Sha(content) == "sha256:" \o content

NoRow == "norow"
NullId == "null"

EmptyDb ==
    [notes |-> [p \in AllPaths |-> NoRow],
     fts |-> [p \in AllPaths |-> NoRow],
     noteTags |-> [p \in AllPaths |-> {}],
     tags |-> {},
     headings |-> [p \in AllPaths |-> <<>>],
     links |-> [p \in AllPaths |-> <<>>]]

GetNoteHash(d, path) == IF d.notes[path] = NoRow THEN "" ELSE d.notes[path]

\* the hash gate of IndexFile, and the gate switched off
GateNever(hash, existingHash) == FALSE

Unchanged(hash, existingHash) == hash = existingHash

\* UpsertNote fails when another row holds the same basename_key
UpsertConflict(d, path) ==
    /\ d.notes[path] = NoRow
    /\ \E q \in AllPaths :
          /\ q # path
          /\ d.notes[q] # NoRow
          /\ canonicalBasenameKey(q) = canonicalBasenameKey(path)

\* the subquery of resolveLinks: path = target_path OR path LIKE '%/' ||
\* target_path ("=" compares case, LIKE does not)
LinkTargetId(d, targetPath) ==
    LET hits == {q \in AllPaths :
                    /\ d.notes[q] # NoRow
                    /\ \/ q = targetPath
                       \/ InSubdir(q) /\ ToLower(Base(q)) = ToLower(targetPath)}
    IN  IF hits = {} THEN NullId ELSE CHOOSE q \in hits : TRUE

SeqToSet(s) == {s[i] : i \in 1..Len(s)}

\* the rows IndexFile inserts for the links of a note, before resolveLinks
LinkRows(parsed) ==
    [i \in 1..Len(parsed.links) |->
        [line |-> i,
         target_path |-> Base(ResolveWikiLinkTarget(parsed.links[i])),
         target_id |-> NullId]]

\* IndexFile on store d: the store after it, whether it returned an error and
\* how many statements wrote
IndexFileOn(d, path, content) ==
    IF content = Missing
    THEN [db |-> d, err |-> TRUE, writes |-> 0]
    ELSE IF Unchanged(Sha(content), GetNoteHash(d, path))
    THEN [db |-> d, err |-> FALSE, writes |-> 0]
    ELSE IF UpsertConflict(d, path)
    THEN [db |-> d, err |-> TRUE, writes |-> 0]
    ELSE LET parsed == Parse(content)
             d1 == [d EXCEPT !.notes[path] = Sha(content),
                             !.fts[path] = content,
                             !.noteTags[path] = SeqToSet(parsed.tags),
                             !.tags = @ \cup SeqToSet(parsed.tags),
                             !.headings[path] = parsed.headings,
                             !.links[path] = LinkRows(parsed)]
             d2 == [d1 EXCEPT !.links[path] =
                       [i \in 1..Len(d1.links[path]) |->
                           [d1.links[path][i] EXCEPT
                               !.target_id = LinkTargetId(d1, d1.links[path][i].target_path)]]]
         IN  [db |-> d2, err |-> FALSE,
              writes |-> 7 + 2 * Len(parsed.tags) + Len(parsed.headings)
                           + Len(parsed.links)]

\* DeleteNote: the row goes, its tags, headings and links cascade, and links
\* that pointed at it lose their target_id; nothing removes the FTS entry
DeleteNoteOn(d, path) ==
    [d EXCEPT !.notes[path] = NoRow,
              !.noteTags[path] = {},
              !.headings[path] = <<>>,
              !.links = [q \in AllPaths |->
                            IF q = path THEN <<>>
                            ELSE [i \in 1..Len(d.links[q]) |->
                                    IF d.links[q][i].target_id = path
                                       /\ d.notes[path] # NoRow
                                    THEN [d.links[q][i] EXCEPT !.target_id = NullId]
                                    ELSE d.links[q][i]]]]

\* the two statements at the head of IndexAll
HashKept(h) == h

HashAfterClear(h) == ""

ClearForIndexAll(d) ==
    [d EXCEPT !.links = [p \in AllPaths |-> <<>>],
              !.notes = [p \in AllPaths |->
                            IF d.notes[p] = NoRow THEN NoRow
                            ELSE HashAfterClear(d.notes[p])]]

\* filepath.Walk visits in lexical order; the first error ends the walk
WalkOrder ==
    <<"New-Note.md", "a.md", "c.md", "d/New-Note.md", "d/a.md", "d/c.md", "d/new-note.md",
      "new-note.md">>

RECURSIVE WalkFrom(_, _, _, _)
WalkFrom(d, disk, i, writes) ==
    IF i > Len(WalkOrder) THEN [db |-> d, err |-> FALSE, writes |-> writes]
    ELSE IF disk[WalkOrder[i]] = Missing THEN WalkFrom(d, disk, i + 1, writes)
    ELSE LET r == IndexFileOn(d, WalkOrder[i], disk[WalkOrder[i]])
         IN  IF r.err THEN [db |-> r.db, err |-> TRUE, writes |-> writes + r.writes]
             ELSE WalkFrom(r.db, disk, i + 1, writes + r.writes)

\* GetBacklinks: the source paths of the rows it returns
GetBacklinks(d, targetPath) ==
    {n \in AllPaths :
        /\ d.notes[n] # NoRow
        /\ \E i \in 1..Len(d.links[n]) : d.links[n][i].target_path = Base(targetPath)}

\* FindNoteByBasename: path = basename OR path LIKE '%/' || basename
FindNoteByBasename(d, basename) ==
    LET hits == {q \in AllPaths :
                    /\ d.notes[q] # NoRow
                    /\ \/ q = basename
                       \/ InSubdir(q) /\ ToLower(Base(q)) = ToLower(basename)}
    IN  IF hits = {} THEN "" ELSE CHOOSE q \in hits : TRUE

IxInit ==
    /\ ixDisk \in [AllPaths -> IxContents \cup {Missing}]
    /\ \A p \in AllPaths \ IxPaths : ixDisk[p] = Missing
    /\ db = EmptyDb
    /\ ixLast = <<"none", "", "ok">>
    /\ ixWrites = 0

\* the file is written with other content, or created
IxEdit(p, c) ==
    /\ ixDisk[p] # c
    /\ ixDisk' = [ixDisk EXCEPT ![p] = c]
    /\ ixLast' = <<"edit", "", "ok">>
    /\ ixWrites' = 0
    /\ UNCHANGED <<db, ixFrame>>

\* the file is deleted
IxDelete(p) ==
    /\ ixDisk[p] # Missing
    /\ ixDisk' = [ixDisk EXCEPT ![p] = Missing]
    /\ ixLast' = <<"edit", "", "ok">>
    /\ ixWrites' = 0
    /\ UNCHANGED <<db, ixFrame>>

\* Indexer.IndexFile(path)
IndexFile(p) ==
    LET r == IndexFileOn(db, p, ixDisk[p])
    IN  /\ db' = r.db
        /\ ixLast' = <<"IndexFile", p, IF r.err THEN "error" ELSE "ok">>
        /\ ixWrites' = r.writes
        /\ UNCHANGED <<ixDisk, ixFrame>>

\* Indexer.RemoveFile(path)
RemoveFile(p) ==
    /\ db' = DeleteNoteOn(db, p)
    /\ ixLast' = <<"RemoveFile", p, "ok">>
    /\ ixWrites' = 1
    /\ UNCHANGED <<ixDisk, ixFrame>>

\* Indexer.IndexAll()
IndexAll ==
    LET r == WalkFrom(ClearForIndexAll(db), ixDisk, 1, 2)
    IN  /\ db' = r.db
        /\ ixLast' = <<"IndexAll", "", IF r.err THEN "error" ELSE "ok">>
        /\ ixWrites' = r.writes
        /\ UNCHANGED <<ixDisk, ixFrame>>

NextIndex ==
    \/ \E p \in IxPaths, c \in IxContents : IxEdit(p, c)
    \/ \E p \in IxPaths : IxDelete(p)
    \/ \E p \in IxPaths : IndexFile(p)
    \/ \E p \in IxPaths : RemoveFile(p)
    \/ IndexAll

InitIndex == IxInit /\ FmtIdle /\ NavIdle /\ KeysIdle /\ WIdle /\ ExtIdle

SpecIndex == InitIndex /\ [][NextIndex]_vars

\* the link rows of a note are one per wiki link of the content, in order,
\* each naming the basename of its link's resolved target (letter case aside)
LinksMatch(rows, parsed) ==
    /\ Len(rows) = Len(parsed.links)
    /\ \A i \in 1..Len(rows) :
          /\ rows[i].line = i
          /\ ToLower(rows[i].target_path)
                = ToLower(Base(ResolveWikiLinkTarget(parsed.links[i])))

C10_HashGateWritesNothing ==
    [][\A p \in IxPaths :
          (/\ ixLast' = <<"IndexFile", p, "ok">>
           /\ ixDisk[p] # Missing
           /\ db.notes[p] = Sha(ixDisk[p]))
              => (ixWrites' = 0 /\ db' = db)]_vars

\* a note with links, tags or headings was indexed twice in a row
C10_Witness ==
    /\ ixLast = <<"IndexFile", "a.md", "ok">>
    /\ ixWrites = 0
    /\ ixDisk["a.md"] = "toUpper"
    /\ db.notes["a.md"] = Sha("toUpper")
    /\ db.noteTags["a.md"] = {"x"}

\* every file on disk is indexed at its current content and no other row is
\* left
Indexed ==
    \A p \in AllPaths :
        IF ixDisk[p] = Missing THEN db.notes[p] = NoRow
        ELSE db.notes[p] = Sha(ixDisk[p])

\* the notes with an outgoing wiki link whose target has the lowercase
\* basename of path
LinkersTo(path) ==
    {n \in AllPaths :
        /\ ixDisk[n] # Missing
        /\ \E i \in 1..Len(Parse(ixDisk[n]).links) :
              ToLower(Base(ResolveWikiLinkTarget(Parse(ixDisk[n]).links[i])))
                 = ToLower(Base(path))}

\* C3: in every indexed vault state, get_backlinks(path) returns exactly the
\* notes with at least one outgoing wiki link whose target, compared by
\* lowercase basename, equals the lowercase basename of path.
C3_BacklinksByLowercaseBasename ==
    Indexed => \A p \in IxPaths :
                   ixDisk[p] # Missing => GetBacklinks(db, p) = LinkersTo(p)

\* C35: after index_all completes successfully, the set of note rows in the
\* index equals the set of .md files currently in the vault (the vault of the
\* model has no hidden directory); in particular no row remains for a file
\* that no longer exists on disk.
C35_IndexAllMatchesDisk ==
    ixLast = <<"IndexAll", "", "ok">> =>
        {p \in AllPaths : db.notes[p] # NoRow} = {p \in AllPaths : ixDisk[p] # Missing}

(***************************************************************************)
(* The watcher: handleEvent on the watcher goroutine, one time.AfterFunc   *)
(* timer per event whose function runs on a goroutine of its own, and the  *)
(* change callback the App hands to NewWatcher.                            *)
(***************************************************************************)
WPaths == {"a.md", "new-note.md"}

\* how many timers the watcher creates in a run
MaxTimers == 3

TimerIds == 1..MaxTimers

\* the function of a timer calls RemoveFile for Remove and Rename events and
\* IndexFile for the others
OpOfEvent(ev) == IF ev \in {"Remove", "Rename"} THEN "RemoveFile" ELSE "IndexFile"

\* timer.Stop: an armed timer is stopped, a timer whose function has started
\* is left running
StopTimer(timers, id) ==
    IF id # 0 /\ timers[id].st = "armed"
    THEN [timers EXCEPT ![id].st = "stopped"]
    ELSE timers

\* the operations of the indexer that are executing for a path
InFlight(path) == {i \in 1..Len(wTimers) : wTimers[i].path = path /\ wTimers[i].st = "running"}

wErrCount == <<wErrors, wReports, wStopFirst>>

\* how many fatal errors the directory subscriptions of a run produce
MaxAddErrors == 2

\* Watcher.fatal, and fatal without its test of closed: the calls of onError
FatalReportsAlways(closed) == 1

FatalReports(closed) == IF closed THEN 0 ELSE 1

\* an error occurs and Watcher.fatal(err) is called with it
fatal ==
    /\ wErrors' = wErrors + 1
    /\ wReports' = wReports + FatalReports(wClosed)
    /\ wFatalSent' = (wFatalSent \/ FatalReports(wClosed) > 0)
    /\ wClosed' = TRUE
    /\ UNCHANGED wStopFirst

WInit ==
    /\ wTimers = <<>>
    /\ wDebounce = [p \in WPaths |-> 0]
    /\ wClosed = FALSE
    /\ wLoop = TRUE
    /\ wFatalSent = FALSE
    /\ wTreeBy = {}
    /\ wErrors = 0
    /\ wReports = 0
    /\ wStopFirst = FALSE

\* Watcher.handleEvent for an event on a Markdown file
HandleEvent(path, ev) ==
    /\ wLoop
    /\ Len(wTimers) < MaxTimers
    /\ wTimers' = Append(StopTimer(wTimers, wDebounce[path]),
                         [path |-> path, op |-> OpOfEvent(ev), st |-> "armed"])
    /\ wDebounce' = [wDebounce EXCEPT ![path] = Len(wTimers) + 1]
    /\ UNCHANGED <<wClosed, wLoop, wFatalSent, wTreeBy, wErrCount, wFrame>>

\* the 200 ms of a timer elapse: its function starts on a new goroutine
TimerFires(id) ==
    /\ id <= Len(wTimers)
    /\ wTimers[id].st = "armed"
    /\ wTimers' = [wTimers EXCEPT ![id].st = "fired"]
    /\ UNCHANGED <<wDebounce, wClosed, wLoop, wFatalSent, wTreeBy, wErrCount, wFrame>>

\* the timer function takes the mutex, deletes the map entry of its path and
\* goes on to call the indexer
TimerBegins(id) ==
    /\ id <= Len(wTimers)
    /\ wTimers[id].st = "fired"
    /\ wDebounce' = [wDebounce EXCEPT ![wTimers[id].path] = 0]
    /\ wTimers' = [wTimers EXCEPT ![id].st = "running"]
    /\ UNCHANGED <<wClosed, wLoop, wFatalSent, wTreeBy, wErrCount, wFrame>>

\* RemoveFile or IndexFile returns: on an error Watcher.fatal reports it once,
\* otherwise onChange runs, which is the App's closure calling tree.Refresh
TimerEnds(id, err) ==
    /\ id <= Len(wTimers)
    /\ wTimers[id].st = "running"
    /\ wTimers' = [wTimers EXCEPT ![id].st = "done"]
    /\ IF err
       THEN /\ fatal
            /\ UNCHANGED wTreeBy
       ELSE /\ wTreeBy' = wTreeBy \cup {"timer"}
            /\ UNCHANGED <<wClosed, wFatalSent, wErrCount>>
    /\ UNCHANGED <<wDebounce, wLoop, wFrame>>

\* a handler of the update loop refreshes the tree
LoopRefresh ==
    /\ wTreeBy' = wTreeBy \cup {"loop"}
    /\ UNCHANGED <<wTimers, wDebounce, wClosed, wLoop, wFatalSent, wErrCount, wFrame>>

\* Watcher.Stop: closed is set and the event loop of Start ends
WatcherStop ==
    /\ wLoop
    /\ wClosed' = TRUE
    /\ wLoop' = FALSE
    /\ wStopFirst' = (wStopFirst \/ wErrors = 0)
    /\ UNCHANGED <<wTimers, wDebounce, wFatalSent, wTreeBy, wErrors, wReports, wFrame>>

\* handleEvent for a new directory whose watcher.Add fails: fatal, and the
\* loop of Start goes on
AddDirFails ==
    /\ wLoop
    /\ wErrors < MaxAddErrors
    /\ fatal
    /\ UNCHANGED <<wTimers, wDebounce, wLoop, wTreeBy, wFrame>>

\* Start receives from watcher.Errors: fatal, and the loop returns
ErrorsChannel ==
    /\ wLoop
    /\ fatal
    /\ wLoop' = FALSE
    /\ UNCHANGED <<wTimers, wDebounce, wTreeBy, wFrame>>

NextWatcher ==
    \/ \E p \in WPaths, ev \in {"Write", "Remove"} : HandleEvent(p, ev)
    \/ \E id \in TimerIds : TimerFires(id)
    \/ \E id \in TimerIds : TimerBegins(id)
    \/ \E id \in TimerIds, err \in BOOLEAN : TimerEnds(id, err)
    \/ LoopRefresh
    \/ WatcherStop
    \/ AddDirFails
    \/ ErrorsChannel

InitWatcher == WInit /\ FmtIdle /\ NavIdle /\ KeysIdle /\ IxIdle /\ ExtIdle

SpecWatcher == InitWatcher /\ [][NextWatcher]_vars

\* C4: for any path and any timing of filesystem events, at most one
\* index_file/remove_file operation of the watcher is executing for that path.
C4_OneOperationPerPath ==
    \A p \in WPaths : Cardinality(InFlight(p)) <= 1

\* C11 as stated: if one or more fatal watcher errors occur, the error
\* callback is invoked exactly once in total.
C11_ReportedExactlyOnce == wErrors >= 1 => wReports = 1

\* C11: the error callback is invoked at most once in total, whatever the
\* number of errors and the interleaving of loop and timer goroutines, and
\* exactly once when an error occurs before Stop has been called.
C11_ReportedOnceUnlessStopped ==
    /\ wReports <= 1
    /\ (wErrors >= 1 /\ ~wStopFirst) => wReports = 1

\* errors from a timer function and from the loop, one report
C11_Witness ==
    /\ wErrors >= 2
    /\ wReports = 1
    /\ ~wLoop
    /\ \E i \in 1..Len(wTimers) : wTimers[i].st = "done"

\* C5: every mutation of App and panel state, the tree refresh triggered by
\* the watcher's change callback included, executes on the update-loop
\* thread.
C5_MutationsOnLoopThread ==
    wTreeBy \subseteq {"loop"}

\* the timers of a path whose 200 ms are running
ArmedTimers(path) ==
    {i \in 1..Len(wTimers) : wTimers[i].path = path /\ wTimers[i].st = "armed"}

\* C30: a burst of events on one path, each less than 200 ms after the one
\* before (each handled while the timer of the one before is still armed),
\* leads to exactly one index operation, the one of its last event: whenever
\* an event is handled, the timers armed for its path before it are stopped,
\* so that a path never has two timers armed.
C30_OneTimerPerBurst == \A p \in WPaths : Cardinality(ArmedTimers(p)) <= 1

\* no timer is pending: every timer armed so far was stopped or has completed
\* its function
Quiet == \A i \in 1..Len(wTimers) : wTimers[i].st \in {"stopped", "done"}

\* C31: after the watcher has reported a fatal error, no later filesystem
\* event results in an index_file or remove_file call or in an invocation of
\* the change callback: once the error is reported and no timer is pending,
\* no step leaves a timer pending, a pending timer being one whose function
\* goes on to call the indexer and the change callback.
C31_EventsSuppressedAfterFatal == [][(wFatalSent /\ Quiet) => Quiet']_vars

\* C32: after Watcher.Stop() has returned, no pending debounce timer runs
\* IndexFile or RemoveFile against the index or invokes the change callback:
\* in a step taken after Stop, no timer function begins its call of the
\* indexer and none reaches onChange.
C32_NoTimerRunsAfterStop ==
    [][(wStopFirst /\ ~wLoop) =>
          /\ \A i \in 1..Len(wTimers) :
                 wTimers'[i].st = "running" => wTimers[i].st = "running"
          /\ "timer" \in wTreeBy' => "timer" \in wTreeBy]_vars

(***************************************************************************)
(* The vault: the notes on disk (ixDisk), the index the App consults       *)
(* before it creates, renames or moves a note (db), and the watcher that   *)
(* brings the index up to date afterwards.  The file system tells          *)
(* "New-Note.md" from "new-note.md".  Notes carry no links here, so a      *)
(* rename finds no backlink to rewrite.                                    *)
(***************************************************************************)
LinkTargets == {"a", "new-note", "New-Note"}

\* the names and paths the user gives in this specification
VNames == {"a.md", "new-note.md", "New-Note.md"}
VPaths == {d \o n : d \in Dirs, n \in VNames}

\* filepath.Dir(p), with its trailing separator
DirOf(p) == IF InSubdir(p) THEN "d/" ELSE ""

\* Slugify("New Note") \o ".md": the path CreateFromTemplate creates
TemplateNotePath == "new-note.md"

checkUniqueBasenameExcept(d, relPath, exceptPath) ==
    LET existing == FindNoteByBasename(d, Base(relPath))
    IN  IF existing = "" \/ existing = relPath \/ existing = exceptPath
        THEN ""
        ELSE "a note with this name already exists"

checkUniqueBasename(d, relPath) == checkUniqueBasenameExcept(d, relPath, "")

\* Vault.CreateNote: an existing file is left as it is, without an error
CreateNoteOn(disk, relPath) ==
    IF disk[relPath] # Missing THEN disk
    ELSE [disk EXCEPT ![relPath] = "plain"]

\* Vault.RenameNote: refuses when the destination exists
RenameNoteOn(disk, oldRel, newRel) ==
    IF disk[newRel] # Missing \/ disk[oldRel] = Missing
    THEN [disk |-> disk, err |-> TRUE]
    ELSE [disk |-> [disk EXCEPT ![newRel] = disk[oldRel], ![oldRel] = Missing],
          err |-> FALSE]

\* Vault.MoveNote
MoveNoteOn(disk, oldRel, newDir) == RenameNoteOn(disk, oldRel, newDir \o Base(oldRel))

\* no two notes on disk have equal lowercase basenames
UniqueOnDisk(disk) ==
    \A p, q \in AllPaths :
        (p # q /\ disk[p] # Missing /\ disk[q] # Missing)
            => ToLower(Base(p)) # ToLower(Base(q))

\* a vault with pairwise distinct lowercase basenames, indexed at startup
VaultInit ==
    /\ ixDisk \in [AllPaths -> {"plain", Missing}]
    /\ \A p \in AllPaths \ VPaths : ixDisk[p] = Missing
    /\ UniqueOnDisk(ixDisk)
    /\ db = WalkFrom(ClearForIndexAll(EmptyDb), ixDisk, 1, 2).db
    /\ ixLast = <<"none", "", "ok">>
    /\ ixWrites = 0

\* the check-then-create that the tree prompt, the finder and save-as share
CheckedCreate(relPath) ==
    IF checkUniqueBasename(db, relPath) # ""
    THEN /\ ixLast' = <<"vault", "", "refused">>
         /\ UNCHANGED ixDisk
    ELSE /\ ixDisk' = CreateNoteOn(ixDisk, relPath)
         /\ ixLast' = <<"vault", "", "ok">>

\* the tree's new-note prompt
handleCreateNotePrompt(relPath) ==
    /\ CheckedCreate(relPath)
    /\ ixWrites' = 0
    /\ UNCHANGED <<db, ixFrame>>

\* the finder's create request
createNoteFromFinder(relPath) ==
    /\ CheckedCreate(relPath)
    /\ ixWrites' = 0
    /\ UNCHANGED <<db, ixFrame>>

\* save-as of an unnamed buffer; without the editor's RPC nothing is created
handleSaveAsPrompt(relPath, rpcOk) ==
    /\ IF rpcOk THEN CheckedCreate(relPath)
       ELSE /\ ixLast' = <<"vault", "", "refused">>
            /\ UNCHANGED ixDisk
    /\ ixWrites' = 0
    /\ UNCHANGED <<db, ixFrame>>

\* following a wiki link whose target has no file yet creates a stub
FollowLink(target) ==
    LET basename == Base(ResolveWikiLinkTarget(target))
        resolved == FindNoteByBasename(db, basename)
        targetPath == IF resolved # "" THEN resolved ELSE basename
    IN  /\ IF ixDisk[targetPath] = Missing
           THEN CheckedCreate(targetPath)
           ELSE /\ ixLast' = <<"vault", "", "opened">>
                /\ UNCHANGED ixDisk
        /\ ixWrites' = 0
        /\ UNCHANGED <<db, ixFrame>>

\* the template generator: CreateFromTemplate(templates[0], "New Note")
InsertTemplate(hasTemplates) ==
    /\ IF hasTemplates
       THEN /\ ixDisk' = CreateNoteOn(ixDisk, TemplateNotePath)
            /\ ixLast' = <<"vault", "", "ok">>
       ELSE /\ ixLast' = <<"vault", "", "refused">>
            /\ UNCHANGED ixDisk
    /\ ixWrites' = 0
    /\ UNCHANGED <<db, ixFrame>>

\* rename of a note of the tree, within its directory
handleRenameNote(newName, oldPath) ==
    LET newRel == DirOf(oldPath) \o newName
        r == RenameNoteOn(ixDisk, oldPath, newRel)
    IN  /\ ixDisk[oldPath] # Missing
        /\ IF checkUniqueBasename(db, newRel) # "" \/ r.err
           THEN /\ ixLast' = <<"vault", "", "refused">>
                /\ UNCHANGED ixDisk
           ELSE /\ ixDisk' = r.disk
                /\ ixLast' = <<"vault", "", "ok">>
        /\ ixWrites' = 0
        /\ UNCHANGED <<db, ixFrame>>

\* paste of one cut note into a directory
handlePaste(src, destDir) ==
    LET newRel == destDir \o Base(src)
        r == MoveNoteOn(ixDisk, src, destDir)
    IN  /\ ixDisk[src] # Missing
        /\ IF checkUniqueBasenameExcept(db, newRel, src) # "" \/ r.err
           THEN /\ ixLast' = <<"vault", "", "refused">>
                /\ UNCHANGED ixDisk
           ELSE /\ ixDisk' = r.disk
                /\ ixLast' = <<"vault", "", "ok">>
        /\ ixWrites' = 0
        /\ UNCHANGED <<db, ixFrame>>

\* the watcher indexes a file it saw created or written
WatcherIndexes(p) ==
    /\ ixDisk[p] # Missing
    /\ IndexFile(p)

\* the watcher drops a file it saw removed or renamed away
WatcherRemoves(p) ==
    /\ ixDisk[p] = Missing
    /\ db.notes[p] # NoRow
    /\ RemoveFile(p)

NextVault ==
    \/ \E p \in VPaths : handleCreateNotePrompt(p)
    \/ \E p \in VPaths : createNoteFromFinder(p)
    \/ \E p \in VPaths, rpcOk \in BOOLEAN : handleSaveAsPrompt(p, rpcOk)
    \/ \E t \in LinkTargets : FollowLink(t)
    \/ \E hasTemplates \in BOOLEAN : InsertTemplate(hasTemplates)
    \/ \E n \in VNames, p \in VPaths : handleRenameNote(n, p)
    \/ \E p \in VPaths, dir \in Dirs : handlePaste(p, dir)
    \/ \E p \in VPaths : WatcherIndexes(p)
    \/ \E p \in VPaths : WatcherRemoves(p)

InitVault == VaultInit /\ FmtIdle /\ NavIdle /\ KeysIdle /\ WIdle /\ ExtIdle

SpecVault == InitVault /\ [][NextVault]_vars

\* C1: starting from a vault whose notes have pairwise distinct lowercase
\* basenames, no sequence of App-level create, rename or move operations
\* leaves two notes on disk with equal lowercase basenames.
C1_UniqueBasenames == UniqueOnDisk(ixDisk)

(***************************************************************************)
(* The file operations of the Vault, called one at a time on a small       *)
(* vault.  MkdirAll and WriteFile succeed or fail as the file system       *)
(* decides.                                                                *)
(***************************************************************************)
NtPaths == {"a.md", "b.md", "d/a.md"}
NtContents == {"x", "y"}

\* filepath.Join(v.Root, relPath)
AbsPath(relPath) == "/vault/" \o relPath

\* Vault.CreateNote: the disk after it, the path and the error it returns
CreateNoteRes(disk, relPath, content, mkdirOk, writeOk) ==
    IF ~mkdirOk THEN [disk |-> disk, path |-> "", err |-> TRUE]
    ELSE IF disk[relPath] # Missing
    THEN [disk |-> disk, path |-> AbsPath(relPath), err |-> FALSE]
    ELSE IF ~writeOk THEN [disk |-> disk, path |-> "", err |-> TRUE]
    ELSE [disk |-> [disk EXCEPT ![relPath] = content],
          path |-> AbsPath(relPath), err |-> FALSE]

NtInit ==
    /\ ntDisk \in [NtPaths -> NtContents \cup {Missing}]
    /\ ntLast = [op |-> "none", path |-> "", before |-> Missing, ret |-> "", err |-> FALSE]

\* Vault.CreateNote(relPath, content)
CreateNote(relPath, content, mkdirOk, writeOk) ==
    LET r == CreateNoteRes(ntDisk, relPath, content, mkdirOk, writeOk)
    IN  /\ ntDisk' = r.disk
        /\ ntLast' = [op |-> "CreateNote", path |-> relPath, before |-> ntDisk[relPath],
                      ret |-> r.path, err |-> r.err]
        /\ UNCHANGED ntFrame

\* Vault.DeleteNote(relPath): os.Remove
DeleteNote(relPath) ==
    /\ ntDisk' = [ntDisk EXCEPT ![relPath] = Missing]
    /\ ntLast' = [op |-> "DeleteNote", path |-> relPath, before |-> ntDisk[relPath],
                  ret |-> "", err |-> (ntDisk[relPath] = Missing)]
    /\ UNCHANGED ntFrame

NextNote ==
    \/ \E p \in NtPaths, c \in NtContents, mkdirOk, writeOk \in BOOLEAN :
          CreateNote(p, c, mkdirOk, writeOk)
    \/ \E p \in NtPaths : DeleteNote(p)

InitNote == NtInit /\ CoreIdle /\ RwIdle /\ RnIdle /\ PrIdle /\ ClIdle /\ LateIdle

SpecNote == InitNote /\ [][NextNote]_vars

\* C12: create_note(rel_path, content) called for a path at which a file
\* already exists reports failure to the caller and leaves the existing
\* file's bytes unchanged.
C12_CreateRefusesExisting ==
    (ntLast.op = "CreateNote" /\ ntLast.before # Missing)
        => (ntLast.err /\ ntDisk[ntLast.path] = ntLast.before)

(***************************************************************************)
(* Rewriting of wiki links after a rename.  Contents and names are         *)
(* sequences of characters; the regular expression of replaceWikiLinkTargets*)
(*   \[\[ old (\.md)? ([#|][^\]]*?)? \]\]                                  *)
(* is matched leftmost-first as Go's regexp does.                          *)
(***************************************************************************)
LB == "["
RB == "]"
DotMd == <<".", "m", "d">>

\* content[i..] begins with pat
HasPrefixAt(content, i, pat) ==
    /\ i + Len(pat) - 1 <= Len(content)
    /\ SubSeq(content, i, i + Len(pat) - 1) = pat

\* the first index from i on that holds "]", or Len(content) + 1
RECURSIVE RunEnd(_, _)
RunEnd(content, i) ==
    IF i > Len(content) \/ content[i] = RB THEN i ELSE RunEnd(content, i + 1)

\* ([#|][^\]]*?)? \]\] at k: the index after the match, 0 when it fails
TailEnd(content, k) ==
    IF k <= Len(content) /\ content[k] \in {"#", "|"}
    THEN LET m == RunEnd(content, k + 1)
         IN  IF HasPrefixAt(content, m, <<RB, RB>>) THEN m + 2 ELSE 0
    ELSE IF HasPrefixAt(content, k, <<RB, RB>>) THEN k + 2 ELSE 0

\* the whole pattern at i: the index after the match, 0 when there is none
MatchEnd(content, i, oldName) ==
    IF ~HasPrefixAt(content, i, <<LB, LB>> \o oldName) THEN 0
    ELSE LET j == i + 2 + Len(oldName)
             withMd == IF HasPrefixAt(content, j, DotMd) THEN TailEnd(content, j + 3) ELSE 0
         IN  IF withMd # 0 THEN withMd ELSE TailEnd(content, j)

\* the function given to ReplaceAllStringFunc, on the text between the
\* brackets; and a variant that forgets the suffix
RewrittenNoSuffix(inner, oldName, newName) == newName

Rewritten(inner, oldName, newName) ==
    LET rest == SubSeq(inner, Len(oldName) + 1, Len(inner))
        hasMd == HasPrefix(rest, DotMd)
        suffix == IF hasMd THEN SubSeq(rest, 4, Len(rest)) ELSE rest
    IN  newName \o (IF hasMd THEN DotMd ELSE <<>>) \o suffix

RECURSIVE ReplaceFrom(_, _, _, _)
ReplaceFrom(content, i, oldName, newName) ==
    IF i > Len(content) THEN <<>>
    ELSE LET e == MatchEnd(content, i, oldName)
         IN  IF e = 0
             THEN <<content[i]>> \o ReplaceFrom(content, i + 1, oldName, newName)
             ELSE <<LB, LB>>
                    \o Rewritten(SubSeq(content, i + 2, e - 3), oldName, newName)
                    \o <<RB, RB>>
                    \o ReplaceFrom(content, e, oldName, newName)

replaceWikiLinkTargets(content, oldName, newName) == ReplaceFrom(content, 1, oldName, newName)

\* the note holds a wiki link that the pattern of name matches
HasLinkTo(content, name) == \E i \in 1..Len(content) : MatchEnd(content, i, name) # 0

WikiLink(inner) == <<LB, LB>> \o inner \o <<RB, RB>>

\* how many pieces a note is made of
MaxParts == 2

RwNames == {<<"a">>, <<"b">>, <<"a", "b">>, <<"a">> \o DotMd}

RwPartPool ==
    {WikiLink(n \o sfx) :
        n \in RwNames,
        sfx \in {<<>>, DotMd, <<"#", "s">>, <<"|", "b">>, DotMd \o <<"#", "s", "|", "t">>,
                 <<"|", LB, LB, "a">>}}
      \cup {<<"x">>, <<LB, LB>>, <<RB, RB>>, <<LB, LB, "a", RB>>, <<"b", RB, RB>>}

RECURSIVE Flatten(_)
Flatten(parts) == IF parts = <<>> THEN <<>> ELSE Head(parts) \o Flatten(Tail(parts))

RwInputs == {Flatten(ps) : ps \in SeqsUpTo(RwPartPool, MaxParts)}

RwInit ==
    /\ rwPc = "in"
    /\ rwOrig \in RwInputs
    /\ rwFile = rwOrig
    /\ rwOld \in RwNames
    /\ rwNew \in RwNames

\* RewriteLinksInNote(p, a, b)
RewriteOnce ==
    /\ rwPc = "in"
    /\ rwFile' = replaceWikiLinkTargets(rwFile, rwOld, rwNew)
    /\ rwPc' = "once"
    /\ UNCHANGED <<rwOrig, rwOld, rwNew, rwFrame>>

\* RewriteLinksInNote(p, b, a)
RewriteBack ==
    /\ rwPc = "once"
    /\ rwFile' = replaceWikiLinkTargets(rwFile, rwNew, rwOld)
    /\ rwPc' = "twice"
    /\ UNCHANGED <<rwOrig, rwOld, rwNew, rwFrame>>

NextRewrite == RewriteOnce \/ RewriteBack

InitRewrite == RwInit /\ CoreIdle /\ NtIdle /\ RnIdle /\ PrIdle /\ ClIdle /\ LateIdle

SpecRewrite == InitRewrite /\ [][NextRewrite]_vars

\* C13 as stated: for any note p and any names a and b, rewriting a to b and
\* then b to a leaves p byte-identical to its content before the first call.
C13_RewriteRoundTrip == rwPc = "twice" => rwFile = rwOrig

\* C13: for any note p that holds no wiki link to b, and any names a and b,
\* rewriting a to b and then b to a leaves p byte-identical to its content
\* before the first call.
C13_RoundTripWithoutLinksToNew ==
    (rwPc = "twice" /\ ~HasLinkTo(rwOrig, rwNew)) => rwFile = rwOrig

\* a note whose link to a carried ".md", a section and an alias went to b
\* and came back
C13_Witness ==
    /\ rwPc = "twice"
    /\ rwOld = <<"a">>
    /\ rwNew = <<"b">>
    /\ ~HasLinkTo(rwOrig, rwNew)
    /\ rwOrig = WikiLink(<<"a">> \o DotMd \o <<"#", "s", "|", "t">>) \o <<"x">>
    /\ rwFile = rwOrig

(***************************************************************************)
(* Rename of a note that other notes link to: the handler rewrites the     *)
(* links of the notes GetBacklinks names, and the watcher then processes   *)
(* the events of the rename and of the rewritten files, in any order.      *)
(* "oneLink" is a note with [[new-note]], "twoLinks" one with [[new-note]] *)
(* and [[new-note#intro|hi]]; "toUpper" links as [[New-Note]].             *)
(***************************************************************************)
RnOldPaths == {"new-note.md", "d/new-note.md"}
RnNewNames == {"c.md", "a.md"}
RnLinkerPaths == {"a.md", "d/a.md"}
RnLinkerContents == {"oneLink", "twoLinks", "toUpper", "plain"}

\* strings.TrimSuffix(filepath.Base(path), ".md")
TrimMd(name) ==
    CASE name = "a.md" -> "a"
      [] name = "c.md" -> "c"
      [] name = "new-note.md" -> "new-note"
      [] name = "New-Note.md" -> "New-Note"
      [] OTHER -> name

\* replaceWikiLinkTargets on the contents of this vault: the links spelled
\* oldName are rewritten, links spelled otherwise are not matched
RewriteContent(content, oldName, newName) ==
    IF oldName = "new-note" /\ newName = "c"
    THEN CASE content = "oneLink" -> "oneLinkC"
           [] content = "twoLinks" -> "twoLinksC"
           [] OTHER -> content
    ELSE content

\* the rows GetBacklinks returns, ORDER BY n.path: the source path of every
\* link row whose target_path is the basename
RECURSIVE BacklinkRowsFrom(_, _, _)
BacklinkRowsFrom(d, basename, i) ==
    IF i > Len(WalkOrder) THEN <<>>
    ELSE LET n == WalkOrder[i]
             hit(row) == row.target_path = basename
         IN  (IF d.notes[n] = NoRow THEN <<>>
              ELSE [k \in 1..Len(SelectSeq(d.links[n], hit)) |-> n])
                \o BacklinkRowsFrom(d, basename, i + 1)

GetBacklinksRows(d, targetPath) == BacklinkRowsFrom(d, Base(targetPath), 1)

\* the notes with a wiki link that resolves, by canonical basename, to path
CanonicalLinkers(disk, path) ==
    {n \in AllPaths :
        /\ disk[n] # Missing
        /\ \E i \in 1..Len(Parse(disk[n]).links) :
              canonicalBasenameKey(ResolveWikiLinkTarget(Parse(disk[n]).links[i]))
                 = canonicalBasenameKey(path)}

Occurrences(rows, x) == Cardinality({i \in 1..Len(rows) : rows[i] = x})

RnInit ==
    /\ \E a \in RnLinkerPaths, c \in RnLinkerContents, b \in RnOldPaths :
          ixDisk = [p \in AllPaths |->
                       IF p = a THEN c ELSE IF p = b THEN "plain" ELSE Missing]
    /\ db = WalkFrom(ClearForIndexAll(EmptyDb), ixDisk, 1, 2).db
    /\ ixLast = <<"none", "", "ok">>
    /\ ixWrites = 0
    /\ rnRenamed = [st |-> "none", old |-> "", new |-> "", linkers |-> {}]
    /\ rnPending = {}
    /\ rnFatal = FALSE

\* App.handleRenameNote with its backlink rewriting
RenameWithBacklinks(newName, oldPath) ==
    LET newRel == DirOf(oldPath) \o newName
        oldBasename == TrimMd(Base(oldPath))
        newBasename == TrimMd(Base(newRel))
        backlinkPaths == IF oldBasename # newBasename
                         THEN SeqToSet(GetBacklinksRows(db, oldPath))
                         ELSE {}
        r == RenameNoteOn(ixDisk, oldPath, newRel)
        rewritten == [p \in AllPaths |->
                         IF p \in backlinkPaths /\ r.disk[p] # Missing
                         THEN RewriteContent(r.disk[p], oldBasename, newBasename)
                         ELSE r.disk[p]]
        linkers == CanonicalLinkers(ixDisk, oldPath)
    IN  /\ rnRenamed.st = "none"
        /\ ixDisk[oldPath] # Missing
        /\ ixLast' = <<"vault", "", "ok">>
        /\ ixWrites' = 0
        /\ IF checkUniqueBasename(db, newRel) # "" \/ r.err
           THEN /\ rnRenamed' = [st |-> "refused", old |-> oldPath, new |-> newRel,
                                 linkers |-> linkers]
                /\ UNCHANGED <<ixDisk, rnPending, rnFatal>>
           ELSE /\ ixDisk' = rewritten
                /\ rnRenamed' = [st |-> "done", old |-> oldPath, new |-> newRel,
                                 linkers |-> linkers]
                /\ rnFatal' = (\E p \in backlinkPaths : r.disk[p] = Missing)
                /\ rnPending' = {<<"RemoveFile", oldPath>>, <<"IndexFile", newRel>>}
                                  \cup {<<"IndexFile", p>> : p \in
                                          {q \in AllPaths : rewritten[q] # r.disk[q]}}
        /\ UNCHANGED <<db, rnFrame>>

\* the timer function of a Create or Write event runs IndexFile
RnWatcherIndexes(p) ==
    LET r == IndexFileOn(db, p, ixDisk[p])
    IN  /\ <<"IndexFile", p>> \in rnPending
        /\ rnPending' = rnPending \ {<<"IndexFile", p>>}
        /\ db' = r.db
        /\ ixLast' = <<"IndexFile", p, IF r.err THEN "error" ELSE "ok">>
        /\ ixWrites' = r.writes
        /\ rnFatal' = (rnFatal \/ r.err)
        /\ UNCHANGED <<ixDisk, rnRenamed, rnFrame>>

\* the timer function of a Rename event runs RemoveFile
RnWatcherRemoves(p) ==
    /\ <<"RemoveFile", p>> \in rnPending
    /\ rnPending' = rnPending \ {<<"RemoveFile", p>>}
    /\ db' = DeleteNoteOn(db, p)
    /\ ixLast' = <<"RemoveFile", p, "ok">>
    /\ ixWrites' = 1
    /\ UNCHANGED <<ixDisk, rnRenamed, rnFatal, rnFrame>>

NextRename ==
    \/ \E n \in RnNewNames, p \in RnOldPaths : RenameWithBacklinks(n, p)
    \/ \E p \in AllPaths : RnWatcherIndexes(p)
    \/ \E p \in AllPaths : RnWatcherRemoves(p)

InitRename == RnInit /\ FmtIdle /\ NavIdle /\ KeysIdle /\ WIdle /\ NtIdle /\ RwIdle /\ PrIdle /\ ClIdle /\ LateIdle

SpecRename == InitRename /\ [][NextRename]_vars

\* C14: after the rename-note action has renamed b to c in a vault where a
\* links to b, and once every resulting watcher event has been processed,
\* the backlinks query for c returns a exactly once and the query for b
\* returns nothing.
C14_BacklinksFollowRename ==
    (rnRenamed.st = "done" /\ rnPending = {})
        => /\ \A a \in rnRenamed.linkers :
                 Occurrences(GetBacklinksRows(db, rnRenamed.new), a) = 1
           /\ GetBacklinksRows(db, rnRenamed.old) = <<>>

(***************************************************************************)
(* The App's overlay prompt: the messages that show it, Prompt.Update and  *)
(* the dispatch of its result on pendingPrompt.kind.  The vault is ixDisk  *)
(* and the index is db; the notes of this part hold no links.              *)
(***************************************************************************)
PrNameValues == {"a", "c"}
\* the answers typed into a confirm prompt
PrAnswers == {"", "yes", "Yes", "yes ", "no"}
PrValues == PrAnswers \cup PrNameValues
PrPaths == {"a.md", "c.md", "d/a.md", "d/c.md"}
\* the notes a multiple selection of the tree is made of
PrSelectable == {"a.md", "c.md", "d/c.md"}
\* the editor RPC that fails during a handler, "ok" when none does
PrRpc == {"ok", "content", "write", "open", "splash"}

NoPending == [kind |-> "", path |-> "", paths |-> <<>>]

\* strings.TrimSpace over the values of the model
TrimSpaceValue(s) == IF s = "yes " THEN "yes" ELSE s

\* the test both delete handlers and finder-create make on the answer
ConfirmedAnything(confirmation) == TRUE
Confirmed(confirmation) == ToLower(TrimSpaceValue(confirmation)) = "yes"

\* relPath of a typed name: ".md" is appended when it is missing
NameToRel(value) == value \o ".md"

\* the fields of the App the handlers of the prompt read and write
PrState ==
    [disk |-> ixDisk, cur |-> prCurrent, splash |-> prSplash, run |-> prRun,
     finder |-> prFinder, visible |-> prVisible, pending |-> prPending,
     error |-> prError]

fatalCmd(s) == [s EXCEPT !.run = "fatal"]

\* Prompt.Show and Prompt.ShowConfirm: the prompt opens with an empty input,
\* and with it without the message of an earlier SetError
PromptShow(s) == [s EXCEPT !.visible = TRUE, !.error = ""]
PromptShowConfirm(s) == [s EXCEPT !.visible = TRUE, !.error = ""]
\* Prompt.Hide
PromptHide(s) == [s EXCEPT !.visible = FALSE]
\* Prompt.SetError renders the message inline
PromptSetError(s, msg) == [s EXCEPT !.error = msg]

showSplashNothing(s, rpc) == s
\* App.showSplash: a failing LoadSplashBuffer posts a fatal error and
\* returns before any field changes
showSplashOn(s, rpc) ==
    IF rpc = "splash" THEN fatalCmd(s)
    ELSE [s EXCEPT !.splash = TRUE, !.cur = ""]

\* App.handleNoteClose(save)
handleNoteCloseOn(s, save, rpc) ==
    IF save /\ s.cur = ""
    THEN PromptShow([s EXCEPT !.pending = [NoPending EXCEPT !.kind = "close"]])
    ELSE IF save /\ rpc = "write" THEN fatalCmd(s)
    ELSE showSplashOn(s, rpc)

\* App.handleSaveAsPrompt(value, closeAfter): the new state and ok
handleSaveAsPromptOn(s, d, value, closeAfter, rpc) ==
    LET relPath == NameToRel(value)
        msg == checkUniqueBasename(d, relPath)
        created == [s EXCEPT !.disk = CreateNoteOn(s.disk, relPath)]
        named == [created EXCEPT !.cur = relPath]
    IN  IF msg # "" THEN [s |-> PromptSetError(s, msg), ok |-> FALSE]
        ELSE IF rpc = "content"
        THEN [s |-> PromptSetError(s, "rpc"), ok |-> FALSE]
        ELSE IF rpc = "write" THEN [s |-> fatalCmd(created), ok |-> TRUE]
        ELSE [s |-> IF closeAfter THEN showSplashOn(named, rpc) ELSE named,
              ok |-> TRUE]

\* App.handleCreateNotePrompt(name); openInEditor posts a fatal error when
\* Editor.OpenFile fails, after Editor.showSplash was cleared
handleCreateNotePromptOn(s, d, name, rpc) ==
    LET relPath == NameToRel(name)
        msg == checkUniqueBasename(d, relPath)
        created == [s EXCEPT !.disk = CreateNoteOn(s.disk, relPath),
                             !.splash = FALSE, !.cur = relPath]
    IN  IF msg # "" THEN [s |-> PromptSetError(s, msg), ok |-> FALSE]
        ELSE [s |-> IF rpc = "open" THEN fatalCmd(created) ELSE created,
              ok |-> TRUE]

\* App.handleRenameNote(newName, oldPath), for notes nothing links to
handleRenameNoteOn(s, d, newName, oldPath, rpc) ==
    LET newRel == DirOf(oldPath) \o NameToRel(newName)
        r == RenameNoteOn(s.disk, oldPath, newRel)
        renamed == [s EXCEPT !.disk = r.disk]
    IN  IF checkUniqueBasename(d, newRel) # "" THEN s
        ELSE IF r.err THEN s
        ELSE IF s.cur # oldPath THEN renamed
        ELSE IF rpc = "write" THEN fatalCmd(renamed)
        ELSE [renamed EXCEPT !.cur = newRel]

\* App.handleRenameNotePrompt(newName, oldPath)
handleRenameNotePromptOn(s, d, newName, oldPath, rpc) ==
    LET newRel == DirOf(oldPath) \o NameToRel(newName)
        msg == checkUniqueBasename(d, newRel)
        after == handleRenameNoteOn(s, d, newName, oldPath, rpc)
    IN  IF msg # "" THEN [s |-> PromptSetError(s, msg), ok |-> FALSE]
        ELSE IF after.disk[newRel] = Missing
        THEN [s |-> PromptSetError(after, "rename failed"), ok |-> FALSE]
        ELSE [s |-> after, ok |-> TRUE]

\* one turn of the loop of handleDeleteNotes, and the body of handleDeleteNote:
\* showSplash when the note is open, then Vault.DeleteNote
DeleteOne(s, relPath, rpc) ==
    LET shown == IF s.cur = relPath THEN showSplashOn(s, rpc) ELSE s
    IN  IF shown.disk[relPath] = Missing
        THEN [s |-> fatalCmd(shown), err |-> TRUE]
        ELSE [s |-> [shown EXCEPT !.disk[relPath] = Missing], err |-> FALSE]

\* App.handleDeleteNote(confirmation, relPath)
handleDeleteNoteOn(s, confirmation, relPath, rpc) ==
    IF ~Confirmed(confirmation) THEN s
    ELSE DeleteOne(s, relPath, rpc).s

\* App.handleDeleteNotes(confirmation, paths)
RECURSIVE DeleteFrom(_, _, _, _)
DeleteFrom(s, paths, i, rpc) ==
    IF i > Len(paths) THEN s
    ELSE LET r == DeleteOne(s, paths[i], rpc)
         IN  IF r.err THEN r.s ELSE DeleteFrom(r.s, paths, i + 1, rpc)

handleDeleteNotesOn(s, confirmation, paths, rpc) ==
    IF ~Confirmed(confirmation) THEN s
    ELSE DeleteFrom(s, paths, 1, rpc)

createNoteFromFinderNothing(s, d, name) == s
\* App.createNoteFromFinder(name): the error of Editor.OpenFile is dropped
createNoteFromFinderOn(s, d, name) ==
    LET relPath == NameToRel(name)
    IN  IF checkUniqueBasename(d, relPath) # "" THEN s
        ELSE [s EXCEPT !.disk = CreateNoteOn(s.disk, relPath),
                       !.splash = FALSE, !.cur = relPath]

\* what handlePromptResult does once a validating handler returned
AfterValidated(r) ==
    IF r.ok THEN [PromptHide(r.s) EXCEPT !.pending = NoPending] ELSE r.s

\* App.handlePromptResult(value)
handlePromptResultOn(s, d, value, rpc) ==
    LET action == s.pending
        cleared == PromptHide([s EXCEPT !.pending = NoPending])
    IN  CASE action.kind \in {"save", "close"} ->
               AfterValidated(handleSaveAsPromptOn(s, d, value,
                                                   action.kind = "close", rpc))
          [] action.kind = "create-note" ->
               AfterValidated(handleCreateNotePromptOn(s, d, value, rpc))
          [] action.kind = "rename-note" ->
               AfterValidated(handleRenameNotePromptOn(s, d, value, action.path, rpc))
          [] action.kind = "delete-note" ->
               handleDeleteNoteOn(cleared, value, action.path, rpc)
          [] action.kind = "delete-notes" ->
               handleDeleteNotesOn(cleared, value, action.paths, rpc)
          [] action.kind = "finder-create" ->
               IF ~Confirmed(value) THEN cleared
               ELSE [createNoteFromFinderOn(cleared, d, action.path)
                        EXCEPT !.finder = FALSE]
          [] OTHER -> s

\* App.handlePromptCancelled()
handlePromptCancelledOn(s, rpc) ==
    LET cleared == [s EXCEPT !.pending = NoPending]
    IN  IF s.pending.kind = "close" THEN showSplashOn(cleared, rpc) ELSE cleared

\* the editor RPCs a handler of the prompt calls, by the kind it serves
RpcCalledBy(kind, value) ==
    CASE value = "" -> IF kind = "close" THEN {"splash"} ELSE {}
      [] kind = "save" -> {"content", "write"}
      [] kind = "close" -> {"content", "write", "splash"}
      [] kind = "create-note" -> {"open"}
      [] kind = "rename-note" -> {"write"}
      [] kind \in {"delete-note", "delete-notes"} -> {"splash"}
      [] OTHER -> {}

\* the App takes the fields of s, and remembers the message it handled
PrApply(s, msg, value, rpc) ==
    /\ ixDisk' = s.disk
    /\ prCurrent' = s.cur
    /\ prSplash' = s.splash
    /\ prRun' = s.run
    /\ prFinder' = s.finder
    /\ prVisible' = s.visible
    /\ prPending' = s.pending
    /\ prError' = s.error
    /\ prLast' = [msg |-> msg, value |-> value, rpc |-> rpc, pending |-> prPending,
                  before |-> ixDisk, cur |-> prCurrent, splash |-> prSplash]
    /\ ixLast' = <<"vault", "", "ok">>
    /\ ixWrites' = 0
    /\ UNCHANGED <<db, prFrame>>

PrInit ==
    /\ ixDisk \in [AllPaths -> {"plain", Missing}]
    /\ ixDisk["a.md"] = "plain"
    /\ \A p \in AllPaths \ {"a.md", "d/c.md"} : ixDisk[p] = Missing
    /\ db = WalkFrom(ClearForIndexAll(EmptyDb), ixDisk, 1, 2).db
    /\ ixLast = <<"vault", "", "ok">>
    /\ ixWrites = 0
    /\ prVisible = FALSE
    /\ prError = ""
    /\ prPending = NoPending
    /\ prCurrent \in {"", "a.md"}
    /\ prSplash \in BOOLEAN
    /\ prCurrent # "" => ~prSplash
    /\ prFinder = FALSE
    /\ prRun = "running"
    /\ prLast = [msg |-> "none", value |-> "", rpc |-> "ok", pending |-> NoPending,
                 before |-> ixDisk, cur |-> prCurrent, splash |-> prSplash]

\* editor.NoteClosedMsg{Save: save}: :wq, :x and :q of the embedded editor
NoteClosedMsg(save, rpc) ==
    /\ prRun = "running"
    /\ rpc \in {"ok", "write", "splash"}
    /\ prVisible => rpc = "ok" /\ save
    /\ IF prVisible
       THEN PrApply([PrState EXCEPT !.pending.kind = "close"], "close-note", "", rpc)
       ELSE PrApply(handleNoteCloseOn(PrState, save, rpc),
                    IF save THEN "wq" ELSE "q", "", rpc)

\* editor.SaveUnnamedMsg: :w of a buffer without a name
SaveUnnamedMsg ==
    /\ prRun = "running"
    /\ prCurrent = ""
    /\ PrApply(PromptShow([PrState EXCEPT !.pending = [NoPending EXCEPT !.kind = "save"]]),
               "save-unnamed", "", "ok")

\* panel.TreeNewNoteMsg
TreeNewNoteMsg ==
    /\ prRun = "running" /\ ~prVisible /\ ~prFinder
    /\ PrApply(PromptShow([PrState EXCEPT
                              !.pending = [NoPending EXCEPT !.kind = "create-note"]]),
               "tree-new", "", "ok")

\* panel.TreeDeleteNoteMsg{Path: p}
TreeDeleteNoteMsg(p) ==
    /\ prRun = "running" /\ ~prVisible /\ ~prFinder
    /\ ixDisk[p] # Missing
    /\ PrApply(PromptShowConfirm([PrState EXCEPT
                  !.pending = [NoPending EXCEPT !.kind = "delete-note", !.path = p]]),
               "tree-delete", "", "ok")

\* panel.TreeDeleteNotesMsg{Paths: <<p, q>>}
TreeDeleteNotesMsg(p, q) ==
    /\ prRun = "running" /\ ~prVisible /\ ~prFinder
    /\ p # q /\ ixDisk[p] # Missing /\ ixDisk[q] # Missing
    /\ PrApply(PromptShowConfirm([PrState EXCEPT
                  !.pending = [NoPending EXCEPT !.kind = "delete-notes",
                                                !.paths = <<p, q>>]]),
               "tree-deletes", "", "ok")

\* panel.TreeRenameNoteMsg{Path: p}
TreeRenameNoteMsg(p) ==
    /\ prRun = "running" /\ ~prVisible /\ ~prFinder
    /\ ixDisk[p] # Missing
    /\ PrApply(PromptShow([PrState EXCEPT
                  !.pending = [NoPending EXCEPT !.kind = "rename-note", !.path = p]]),
               "tree-rename", "", "ok")

\* App.ToggleFinder
ToggleFinder ==
    /\ prRun = "running" /\ ~prVisible
    /\ PrApply([PrState EXCEPT !.finder = ~prFinder], "toggle-finder", "", "ok")

\* App.searchNotes(query): the indexed notes whose path holds the query
\* (DB.SearchFiles; the full-text search finds nothing in these notes)
searchNotes(d, query) ==
    {p \in AllPaths : d.notes[p] # NoRow /\ Base(p) = NameToRel(query)}

\* Finder.Update on Enter with no result under the cursor, and the App's
\* handling of the panel.FinderCreateRequestMsg{Name: query} it returns
FinderEnterNoResults(query) ==
    /\ prRun = "running" /\ ~prVisible /\ prFinder
    /\ searchNotes(db, query) = {}
    /\ PrApply(PromptShowConfirm([PrState EXCEPT
                  !.pending = [NoPending EXCEPT !.kind = "finder-create",
                                                !.path = query]]),
               "finder-enter", query, "ok")

\* Prompt.Update on Enter, and the App's handling of the message it returns
PromptEnter(typed, rpc) ==
    LET value == TrimSpaceValue(typed)
        hidden == PromptHide(PrState)
    IN  /\ prRun = "running" /\ prVisible
        /\ typed \in (IF prPending.kind \in {"save", "close", "create-note", "rename-note"}
                     THEN PrNameValues \cup {""} ELSE PrAnswers)
        /\ rpc \in RpcCalledBy(prPending.kind, value) \cup {"ok"}
        /\ IF value = ""
           THEN PrApply(handlePromptCancelledOn(hidden, rpc), "enter", typed, rpc)
           ELSE PrApply(handlePromptResultOn(hidden, db, value, rpc), "enter", typed, rpc)

\* Prompt.Update on Esc, and the App's handling of PromptCancelledMsg
PromptEsc(rpc) ==
    /\ prRun = "running" /\ prVisible
    /\ rpc \in RpcCalledBy(prPending.kind, "") \cup {"ok"}
    /\ PrApply(handlePromptCancelledOn(PromptHide(PrState), rpc), "esc", "", rpc)

\* App.CreateBlankNote: an unnamed buffer in the editor
CreateBlankNote ==
    /\ prRun = "running" /\ ~prVisible /\ ~prFinder
    /\ PrApply([PrState EXCEPT !.splash = FALSE, !.cur = ""], "blank", "", "ok")

\* the watcher indexes a file it saw created or renamed to
PrWatcherIndexes(p) ==
    /\ ixDisk[p] # Missing
    /\ db' = IndexFileOn(db, p, ixDisk[p]).db
    /\ db' # db
    /\ UNCHANGED <<ixDisk, ixLast, ixWrites, prVars, prFrame>>

\* the watcher drops a file it saw removed or renamed away
PrWatcherRemoves(p) ==
    /\ ixDisk[p] = Missing
    /\ db.notes[p] # NoRow
    /\ db' = DeleteNoteOn(db, p)
    /\ UNCHANGED <<ixDisk, ixLast, ixWrites, prVars, prFrame>>

NextPrompt ==
    \/ \E save \in BOOLEAN, rpc \in PrRpc : NoteClosedMsg(save, rpc)
    \/ SaveUnnamedMsg
    \/ TreeNewNoteMsg
    \/ \E p \in PrPaths : TreeDeleteNoteMsg(p)
    \/ \E p, q \in PrSelectable : TreeDeleteNotesMsg(p, q)
    \/ \E p \in PrPaths : TreeRenameNoteMsg(p)
    \/ ToggleFinder
    \/ \E query \in PrNameValues : FinderEnterNoResults(query)
    \/ \E typed \in PrValues, rpc \in PrRpc : PromptEnter(typed, rpc)
    \/ \E rpc \in PrRpc : PromptEsc(rpc)
    \/ CreateBlankNote
    \/ \E p \in PrPaths : PrWatcherIndexes(p)
    \/ \E p \in PrPaths : PrWatcherRemoves(p)

InitPrompt ==
    PrInit /\ FmtIdle /\ NavIdle /\ KeysIdle /\ WIdle /\ NtIdle /\ RwIdle /\ RnIdle
           /\ ClIdle /\ LateIdle

SpecPrompt == InitPrompt /\ [][NextPrompt]_vars

\* the prompt took the name typed: the handler returned ok and no RPC failed
PrAccepted ==
    /\ prLast.msg = "enter"
    /\ prLast.value \in PrNameValues
    /\ prLast.rpc = "ok"
    /\ prPending = NoPending

\* C15: :wq on an unnamed buffer in the Editing view opens the save prompt
\* without ending the App, and once a name is accepted the buffer is saved
\* under it and the App is still running in the Editing view on that note.
C15_WqKeepsEditing ==
    /\ (prLast.msg = "wq" /\ prLast.cur = "" /\ ~prLast.splash)
          => (prVisible /\ prPending.kind = "close" /\ prRun = "running")
    /\ (PrAccepted /\ prLast.pending.kind = "close" /\ prLast.cur = "" /\ ~prLast.splash)
          => /\ ixDisk[NameToRel(prLast.value)] # Missing
             /\ prRun = "running"
             /\ ~prSplash
             /\ prCurrent = NameToRel(prLast.value)

\* the name typed into a create, save-as or rename prompt has the lowercase
\* basename of a note that was on disk, the renamed note itself apart
PrDuplicate ==
    /\ prLast.msg = "enter"
    /\ prLast.pending.kind \in {"create-note", "save", "close", "rename-note"}
    /\ prLast.value \in PrNameValues
    /\ \E q \in AllPaths :
          /\ prLast.before[q] # Missing
          /\ canonicalBasenameKey(q) = canonicalBasenameKey(NameToRel(prLast.value))
          /\ prLast.pending.kind = "rename-note" => q # prLast.pending.path

\* C16: when the name typed into a create, save-as or rename prompt has the
\* basename of an existing note, nothing is created or renamed, the prompt
\* stays visible with an inline error and the pending action is kept.
C16_DuplicateKeepsPrompt ==
    PrDuplicate => /\ ixDisk = prLast.before
                   /\ prVisible
                   /\ prError # ""
                   /\ prPending = prLast.pending

\* the prompt of a delete-note or delete-notes action was answered or cancelled
PrDeleteAnswered ==
    /\ prLast.msg \in {"enter", "esc"}
    /\ prLast.pending.kind \in {"delete-note", "delete-notes"}

\* a note that was on disk before the last message is gone
PrRemoved == \E p \in AllPaths : prLast.before[p] # Missing /\ ixDisk[p] = Missing

\* C17 as stated: a delete prompt removes files only when the value it
\* returns is "yes"; any other value, or a cancel, deletes nothing.
C17_DeleteOnlyOnYes ==
    (PrDeleteAnswered /\ TrimSpaceValue(prLast.value) # "yes") => ixDisk = prLast.before

\* C17: a delete prompt removes files only when the value it returns is
\* "yes" in any letter case ("Yes" deletes too); any other value, or a cancel,
\* leaves the vault as it was, and no message other than a confirmed delete
\* or a rename takes a note off the disk.
C17_DeleteOnlyOnYesAnyCase ==
    /\ (PrDeleteAnswered /\ ToLower(TrimSpaceValue(prLast.value)) # "yes")
          => ixDisk = prLast.before
    /\ PrRemoved => /\ prLast.msg = "enter"
                    /\ \/ prLast.pending.kind = "rename-note"
                       \/ /\ prLast.pending.kind \in {"delete-note", "delete-notes"}
                          /\ ToLower(TrimSpaceValue(prLast.value)) = "yes"

C17_Witness ==
    /\ prLast.msg = "enter"
    /\ prLast.pending.kind = "delete-note"
    /\ prLast.value = "Yes"
    /\ prLast.before[prLast.pending.path] # Missing
    /\ ixDisk[prLast.pending.path] = Missing

\* a delete prompt was answered yes and its set holds the note that was open
PrDeleteOfOpen ==
    /\ prLast.msg = "enter"
    /\ ToLower(TrimSpaceValue(prLast.value)) = "yes"
    /\ prLast.cur # ""
    /\ \/ prLast.pending.kind = "delete-note" /\ prLast.pending.path = prLast.cur
       \/ /\ prLast.pending.kind = "delete-notes"
          /\ \E i \in 1..Len(prLast.pending.paths) : prLast.pending.paths[i] = prLast.cur

PrFinderAnswered ==
    /\ prLast.msg \in {"enter", "esc"}
    /\ prLast.pending.kind = "finder-create"

PrFinderYesStep ==
    /\ prVisible
    /\ prPending.kind = "finder-create"
    /\ prLast'.msg = "enter"
    /\ ToLower(TrimSpaceValue(prLast'.value)) = "yes"

C19_RefusedWitness ==
    /\ PrFinderAnswered
    /\ prLast.value = "yes"
    /\ ixDisk[NameToRel(prLast.pending.path)] = Missing

\* the kinds of prompt opened from the tree and the finder
PrOtherKinds == {"delete-note", "delete-notes", "rename-note", "create-note",
                 "finder-create"}

\* C26: the action a prompt performs on confirm or cancel is the one it was
\* opened for: a NoteClosed or SaveUnnamed message that arrives while a delete,
\* rename, create-note or finder-create prompt is visible leaves the pending
\* action as it was.
C26_PendingActionKept ==
    [][(/\ prVisible
        /\ prPending.kind \in PrOtherKinds
        /\ prLast'.msg \in {"close-note", "save-unnamed"})
          => prPending' = prPending]_vars

(***************************************************************************)
(* The close sequence: App.Close and the Editor.Close it calls.            *)
(***************************************************************************)
\* the calls of the sequence, in the order of the code
ClSteps == <<"save", "quit", "rpcClose", "screenClose", "nvimClose", "watcherStop",
             "dbClose">>
ClStepSet == {ClSteps[i] : i \in 1..Len(ClSteps)}
ClParts == {"store", "rpc", "screen", "nvim", "watcher", "db"}

\* the nil test that guards each call
ClNeeds(step) ==
    CASE step = "save" -> "store"
      [] step \in {"quit", "rpcClose"} -> "rpc"
      [] step = "screenClose" -> "screen"
      [] step = "nvimClose" -> "nvim"
      [] step = "watcherStop" -> "watcher"
      [] OTHER -> "db"

\* the four steps of the sequence and the calls each is made of
ClStepOf(step) ==
    CASE step = "save" -> "session-state save"
      [] step = "watcherStop" -> "watcher stop"
      [] step = "dbClose" -> "index DB close"
      [] OTHER -> "editor close"

\* RPC.Quit returns nothing: the errors of its two commands are dropped, as
\* the editor ends the connection while it serves them; every other call
\* returns its error
ClReturnsError(step) == step # "quit"

\* no branch of the sequence returns early
ClStopsAtFailure(failed) == ~failed
ClContinues(failed) == TRUE

\* the calls from the i-th on
RECURSIVE CloseFrom(_, _, _, _)
CloseFrom(i, has, fails, st) ==
    IF i > Len(ClSteps) THEN st
    ELSE LET step == ClSteps[i]
             failed == step \in fails /\ ClReturnsError(step)
             called == [st EXCEPT !.executed = Append(@, step),
                                  !.stderr = IF failed THEN Append(@, step) ELSE @]
         IN  IF ClNeeds(step) \notin has THEN CloseFrom(i + 1, has, fails, st)
             ELSE IF ClContinues(failed) THEN CloseFrom(i + 1, has, fails, called)
             ELSE called

ClInit ==
    /\ clHas \in SUBSET ClParts
    /\ clPc = "open"
    /\ clFails = {}
    /\ clExecuted = <<>>
    /\ clStderr = <<>>

\* App.Close(), with the calls of fails returning an error
AppClose(fails) ==
    LET st == CloseFrom(1, clHas, fails, [executed |-> <<>>, stderr |-> <<>>])
    IN  /\ clPc = "open"
        /\ \A step \in fails : ClNeeds(step) \in clHas
        /\ clPc' = "closed"
        /\ clFails' = fails
        /\ clExecuted' = st.executed
        /\ clStderr' = st.stderr
        /\ UNCHANGED <<clHas, clFrame>>

NextClose == \E fails \in SUBSET ClStepSet : AppClose(fails)

InitClose == ClInit /\ CoreIdle /\ NtIdle /\ RwIdle /\ RnIdle /\ PrIdle /\ LateIdle

SpecClose == InitClose /\ [][NextClose]_vars

ClRange(seq) == {seq[i] : i \in 1..Len(seq)}

LyWidths == {-1, 0, 1, 59, 60, 65535}
LyHeights == {-1, 0, 1, 24}

\* config.Default(): TreeWidth and InfoWidth
CfgTreeWidth == 30
CfgInfoWidth == 30
\* App.minWindowSize()
MinWindowWidth == 60
MinWindowHeight == 24

\* uint16(n) of a Go int
Uint16(n) == n % 65536

\* ComputeLayout(totalWidth, totalHeight, showTree, showInfo, treeWidth, infoWidth)
ComputeLayout(totalWidth, totalHeight, withTree, withInfo, treeWidth, infoWidth) ==
    LET width == IF totalWidth < 1 THEN 1 ELSE totalWidth
        height == IF totalHeight < 2 THEN 2 ELSE totalHeight
        tw == IF ~withTree THEN 0
              ELSE IF treeWidth > width \div 3 THEN width \div 3 ELSE treeWidth
        afterTree == IF withTree THEN width - (tw - 1) ELSE width
        iw == IF ~withInfo THEN 0
              ELSE IF infoWidth > afterTree \div 3 THEN afterTree \div 3 ELSE infoWidth
        remaining == IF withInfo THEN afterTree - (iw - 1) ELSE afterTree
    IN  [Height |-> height - 1, TreeWidth |-> tw, InfoWidth |-> iw,
         EditorWidth |-> IF remaining < 1 THEN 1 ELSE remaining]

\* App.panelsVisible()
panelsVisible(withTree, withInfo, zen, splash) ==
    [tree |-> withTree /\ ~zen /\ ~splash, info |-> withInfo /\ ~zen /\ ~splash]

\* editorHeight of updateLayout: the layout's height less the title row
EditorHeightNoClamp(layoutHeight) == layoutHeight - 1
EditorHeightOf(layoutHeight) ==
    IF layoutHeight - 1 < 1 THEN 1 ELSE layoutHeight - 1

\* the tea.WindowSizeMsg updateLayout builds for the editor
EditorSizeOf(w, h, withTree, withInfo, zen, splash) ==
    LET vis == panelsVisible(withTree, withInfo, zen, splash)
        layout == ComputeLayout(w, h, vis.tree, vis.info, CfgTreeWidth, CfgInfoWidth)
    IN  <<layout.EditorWidth, EditorHeightOf(layout.Height)>>

\* Editor.Update(tea.WindowSizeMsg): the editor and the size of its PTY after
EditorUpdateSize(ed, pty, size, resizeOk) ==
    IF size[1] <= 0 \/ size[2] <= 0 THEN [ed |-> ed, pty |-> pty]
    ELSE LET sized == [ed EXCEPT !.w = size[1], !.h = size[2]]
         IN  CASE ed.st = "new" ->
                    [ed |-> [sized EXCEPT !.st = "starting", !.sw = size[1],
                                          !.sh = size[2]],
                     pty |-> pty]
               [] ed.st = "running" ->
                    IF resizeOk
                    THEN [ed |-> sized, pty |-> <<Uint16(size[1]), Uint16(size[2])>>]
                    ELSE [ed |-> [sized EXCEPT !.st = "quit"], pty |-> pty]
               [] OTHER -> [ed |-> sized, pty |-> pty]

\* App.updateLayout() under the flags given
updateLayout(withTree, withInfo, zen, splash, resizeOk) ==
    LET size == EditorSizeOf(lyW', lyH', withTree, withInfo, zen, splash)
        r == EditorUpdateSize(lyEd, lyPty, size, resizeOk)
    IN  /\ lySent' = size
        /\ lyEd' = r.ed
        /\ lyPty' = r.pty

LyInit ==
    /\ lyW = 0
    /\ lyH = 0
    /\ lyShowTree \in BOOLEAN
    /\ lyShowInfo \in BOOLEAN
    /\ lyZen = FALSE
    /\ lySplash = TRUE
    /\ lyEd = [w |-> 0, h |-> 0, st |-> "new", sw |-> 0, sh |-> 0]
    /\ lySent = <<>>
    /\ lyPty = <<>>

LyRunning == lyEd.st # "quit"

\* App.Update(tea.WindowSizeMsg{w, h})
WindowSizeMsg(w, h, resizeOk) ==
    /\ LyRunning
    /\ IF w <= 0 \/ h <= 0
       THEN UNCHANGED lyVars
       ELSE /\ lyW' = w
            /\ lyH' = h
            /\ IF w < MinWindowWidth \/ h < MinWindowHeight
               THEN UNCHANGED <<lySent, lyEd, lyPty>>
               ELSE updateLayout(lyShowTree, lyShowInfo, lyZen, lySplash, resizeOk)
            /\ UNCHANGED <<lyShowTree, lyShowInfo, lyZen, lySplash>>
    /\ UNCHANGED lyFrame

\* App.ToggleTree()
LyToggleTree(resizeOk) ==
    /\ LyRunning
    /\ lyShowTree' = ~lyShowTree
    /\ UNCHANGED <<lyW, lyH, lyShowInfo, lyZen, lySplash>>
    /\ updateLayout(lyShowTree', lyShowInfo, lyZen, lySplash, resizeOk)
    /\ UNCHANGED lyFrame

\* App.ToggleInfo()
LyToggleInfo(resizeOk) ==
    /\ LyRunning
    /\ lyShowInfo' = ~lyShowInfo
    /\ UNCHANGED <<lyW, lyH, lyShowTree, lyZen, lySplash>>
    /\ updateLayout(lyShowTree, lyShowInfo', lyZen, lySplash, resizeOk)
    /\ UNCHANGED lyFrame

\* App.ToggleZen()
LyToggleZen(resizeOk) ==
    /\ LyRunning
    /\ lyZen' = ~lyZen
    /\ UNCHANGED <<lyW, lyH, lyShowTree, lyShowInfo, lySplash>>
    /\ updateLayout(lyShowTree, lyShowInfo, lyZen', lySplash, resizeOk)
    /\ UNCHANGED lyFrame

\* App.openInEditor(path): Editor.OpenFile clears the splash, then updateLayout
LyOpenInEditor(resizeOk) ==
    /\ lyEd.st = "running"
    /\ lySplash' = FALSE
    /\ UNCHANGED <<lyW, lyH, lyShowTree, lyShowInfo, lyZen>>
    /\ updateLayout(lyShowTree, lyShowInfo, lyZen, FALSE, resizeOk)
    /\ UNCHANGED lyFrame

\* App.showSplash()
LyShowSplash(resizeOk) ==
    /\ lyEd.st = "running"
    /\ lySplash' = TRUE
    /\ UNCHANGED <<lyW, lyH, lyShowTree, lyShowInfo, lyZen>>
    /\ updateLayout(lyShowTree, lyShowInfo, lyZen, TRUE, resizeOk)
    /\ UNCHANGED lyFrame

\* Editor.Update(editorStartedMsg): the PTY and the emulator Editor.start made
\* with the size the editor had when start was called
LyEditorStarted ==
    /\ lyEd.st = "starting"
    /\ lyEd' = [lyEd EXCEPT !.st = "running", !.sw = 0, !.sh = 0]
    /\ lyPty' = <<Uint16(lyEd.sw), Uint16(lyEd.sh)>>
    /\ UNCHANGED <<lyW, lyH, lyShowTree, lyShowInfo, lyZen, lySplash, lySent>>
    /\ UNCHANGED lyFrame

NextLayout ==
    \/ \E w \in LyWidths, h \in LyHeights, resizeOk \in BOOLEAN :
          WindowSizeMsg(w, h, resizeOk)
    \/ \E resizeOk \in BOOLEAN : LyToggleTree(resizeOk)
    \/ \E resizeOk \in BOOLEAN : LyToggleInfo(resizeOk)
    \/ \E resizeOk \in BOOLEAN : LyToggleZen(resizeOk)
    \/ \E resizeOk \in BOOLEAN : LyOpenInEditor(resizeOk)
    \/ \E resizeOk \in BOOLEAN : LyShowSplash(resizeOk)
    \/ LyEditorStarted

InitLayout == LyInit /\ LyOthersIdle

SpecLayout == InitLayout /\ [][NextLayout]_vars

FcPanels == {"editor", "tree", "info"}

\* the number of messages returned as commands that may wait for delivery
MaxInFlight == 1

FcKeys == {"ctrl+c", "esc", "enter", " ", "v", "t", "b", "z", "x", "ctrl+h", "ctrl+l"}

\* the messages a panel returns as a command
FcMsgs == {"FinderClosed", "FinderResult", "FinderCreateRequest", "FileSelected",
           "PromptYes", "PromptNo", "PromptCancelled"}

FcCur ==
    [focused |-> fcFocused, flags |-> fcFlags, finder |-> fcFinder,
     prompt |-> fcPrompt, splash |-> fcSplash, showTree |-> fcShowTree,
     showInfo |-> fcShowInfo, zen |-> fcZen, leader |-> fcLeader,
     inFlight |-> fcInFlight, run |-> fcRun]

\* setFocus with the panels' flags left as they are
setFocusValueOnly(s, target) == [s EXCEPT !.focused = target]

\* setFocus
setFocus(s, target) ==
    [s EXCEPT !.focused = target,
              !.flags = [p \in FcPanels |-> p = target]]

\* ToggleFinder: the focus value is assigned, the flags are not
FcToggleFinder(s) ==
    IF s.finder THEN [s EXCEPT !.finder = FALSE, !.focused = "editor"]
    ELSE [s EXCEPT !.finder = TRUE, !.focused = "finder"]

\* ToggleTree without its move of the focus
FcToggleTreeKeepFocus(s) == [s EXCEPT !.showTree = ~s.showTree]

\* App.ToggleTree
FcToggleTree(s) ==
    LET t == [s EXCEPT !.showTree = ~s.showTree]
    IN  IF ~t.showTree /\ t.focused = "tree" THEN setFocus(t, "editor") ELSE t

FcToggleInfo(s) ==
    LET t == [s EXCEPT !.showInfo = ~s.showInfo]
    IN  IF ~t.showInfo /\ t.focused = "info" THEN setFocus(t, "editor") ELSE t

FcToggleZen(s) ==
    LET t == [s EXCEPT !.zen = ~s.zen]
    IN  IF t.zen /\ t.focused \in {"tree", "info"} THEN setFocus(t, "editor") ELSE t

FcFocusLeft(s) ==
    CASE s.focused = "editor" ->
            IF s.showTree /\ ~s.zen THEN setFocus(s, "tree") ELSE s
      [] s.focused = "info" -> setFocus(s, "editor")
      [] OTHER -> s

FcFocusRight(s) ==
    CASE s.focused = "editor" ->
            IF s.showInfo /\ ~s.zen THEN setFocus(s, "info") ELSE s
      [] s.focused = "tree" -> setFocus(s, "editor")
      [] OTHER -> s

\* handleLeaderKey over the bindings Space (finder) and v t, v b, v z (view):
\* whether the key is consumed and the state after it
FcLeaderKey(s, key, insert) ==
    IF s.leader = "off"
    THEN IF key # " " \/ (s.focused = "editor" /\ insert)
         THEN [consumed |-> FALSE, s |-> s]
         ELSE [consumed |-> TRUE, s |-> [s EXCEPT !.leader = "root"]]
    ELSE LET off == [s EXCEPT !.leader = "off"]
         IN  [consumed |-> TRUE,
              s |-> CASE s.leader = "root" /\ key = "v" -> [s EXCEPT !.leader = "v"]
                      [] s.leader = "root" /\ key = " " -> FcToggleFinder(off)
                      [] s.leader = "v" /\ key = "t" -> FcToggleTree(off)
                      [] s.leader = "v" /\ key = "b" -> FcToggleInfo(off)
                      [] s.leader = "v" /\ key = "z" -> FcToggleZen(off)
                      [] OTHER -> off]

\* Editor.Update, case tea.KeyMsg, with the test of showSplash left out
EditorWritesAlways(splash) == TRUE

\* Editor.Update, case tea.KeyMsg: whether the key is written to the PTY (the
\* editor process is running)
EditorWrites(splash) == ~splash

\* the KeyMsg case of App.Update: the state after the key, the component the
\* key went to and whether it was written to the editor PTY; hasItem: the
\* finder has a result under the cursor, yes: the prompt holds "yes"
FcKeyResult(s, key, insert, hasItem, yes) ==
    LET lk == FcLeaderKey(s, key, insert)
        r(t, to) == [s |-> t, to |-> to, pty |-> FALSE]
        send(t, m) == [t EXCEPT !.inFlight = @ \cup {m}]
    IN  IF key = "ctrl+c" THEN r([s EXCEPT !.run = "quit"], "quit")
        ELSE IF s.prompt
        THEN CASE key = "enter" ->
                    r(send([s EXCEPT !.prompt = FALSE],
                           IF yes THEN "PromptYes" ELSE "PromptNo"), "prompt")
               [] key = "esc" ->
                    r(send([s EXCEPT !.prompt = FALSE], "PromptCancelled"), "prompt")
               [] OTHER -> r(s, "prompt")
        ELSE IF s.finder
        THEN CASE key = "esc" ->
                    r(send([s EXCEPT !.finder = FALSE], "FinderClosed"), "finder")
               [] key = "enter" ->
                    IF hasItem
                    THEN r(send([s EXCEPT !.finder = FALSE], "FinderResult"), "finder")
                    ELSE r(send(s, "FinderCreateRequest"), "finder")
               [] OTHER -> r(s, "finder")
        ELSE IF s.splash /\ s.focused = "editor"
        THEN IF key = "esc" THEN r(s, "none")
             ELSE IF lk.consumed THEN r(lk.s, "leader")
             ELSE r(s, "none")
        ELSE IF key = "ctrl+h" THEN r(FcFocusLeft(s), "focus")
        ELSE IF key = "ctrl+l" THEN r(FcFocusRight(s), "focus")
        ELSE IF key = "esc" /\ s.focused \in {"tree", "info"}
        THEN r(setFocus(s, "editor"), "focus")
        ELSE IF lk.consumed THEN r(lk.s, "leader")
        ELSE CASE s.focused = "tree" ->
                    r(IF key = "enter" THEN send(s, "FileSelected") ELSE s, "tree")
               [] s.focused = "info" ->
                    r(IF key = "enter" THEN send(s, "FileSelected") ELSE s, "info")
               [] OTHER ->
                    [s |-> s, to |-> "editor", pty |-> EditorWrites(s.splash)]

\* navigateTo: the note is shown unless the RPC that opens it fails
FcNavigateTo(s, rpcOk) == IF rpcOk THEN [s EXCEPT !.splash = FALSE] ELSE s

\* showSplash: returns before anything is set when the splash buffer fails to load
FcShowSplashOn(s, rpcOk) ==
    IF rpcOk THEN setFocus([s EXCEPT !.splash = TRUE], "editor") ELSE s

\* the cases of App.Update for the messages the panels return
FcDelivered(s, m, rpcOk) ==
    CASE m = "FinderClosed" -> setFocus(s, "editor")
      [] m = "FinderResult" ->
            setFocus([FcNavigateTo(s, rpcOk) EXCEPT !.focused = "editor"], "editor")
      [] m = "FileSelected" -> setFocus(FcNavigateTo(s, rpcOk), "editor")
      [] m = "FinderCreateRequest" -> [s EXCEPT !.prompt = TRUE]
      [] m = "PromptYes" ->
            setFocus([FcNavigateTo(s, rpcOk) EXCEPT !.finder = FALSE], "editor")
      [] OTHER -> s

FcSet(s) ==
    /\ fcFocused' = s.focused
    /\ fcFlags' = s.flags
    /\ fcFinder' = s.finder
    /\ fcPrompt' = s.prompt
    /\ fcSplash' = s.splash
    /\ fcShowTree' = s.showTree
    /\ fcShowInfo' = s.showInfo
    /\ fcZen' = s.zen
    /\ fcLeader' = s.leader
    /\ fcInFlight' = s.inFlight
    /\ fcRun' = s.run

FcInit ==
    /\ fcFocused = "editor"
    /\ fcFlags = [editor |-> TRUE, tree |-> FALSE, info |-> FALSE]
    /\ fcFinder = FALSE
    /\ fcPrompt = FALSE
    /\ fcSplash = TRUE
    /\ fcShowTree \in BOOLEAN
    /\ fcShowInfo \in BOOLEAN
    /\ fcZen = FALSE
    /\ fcLeader = "off"
    /\ fcInsert = FALSE
    /\ fcInFlight = {}
    /\ fcRun = "running"
    /\ fcLast = [kind |-> "none"]

\* App.Update, case tea.KeyMsg
FcKeyMsg(key, hasItem, yes) ==
    /\ fcRun = "running"
    /\ LET r == FcKeyResult(FcCur, key, fcInsert, hasItem, yes)
       IN  /\ FcSet(r.s)
           /\ Cardinality(r.s.inFlight) <= MaxInFlight
           /\ fcLast' = [kind |-> "key", ctrlc |-> key = "ctrl+c", to |-> r.to,
                         pty |-> r.pty, splash |-> fcSplash,
                         overlay |-> fcPrompt \/ fcFinder, changed |-> r.s # FcCur,
                         from |-> fcFocused]
    /\ UNCHANGED <<fcInsert, fcFrame>>

\* App.Update, the cases of the messages in flight
FcDeliver(m, rpcOk) ==
    /\ fcRun = "running"
    /\ m \in fcInFlight
    /\ FcSet(FcDelivered([FcCur EXCEPT !.inFlight = @ \ {m}], m, rpcOk))
    /\ fcLast' = [kind |-> "msg"]
    /\ UNCHANGED <<fcInsert, fcFrame>>

\* App.Update, case editor.ModeChangedMsg: cancelLeader outside Normal mode
FcModeChanged(insert) ==
    /\ fcRun = "running"
    /\ fcInsert' = insert
    /\ FcSet(IF insert THEN [FcCur EXCEPT !.leader = "off"] ELSE FcCur)
    /\ fcLast' = [kind |-> "msg"]
    /\ UNCHANGED fcFrame

\* App.Update, case editor.NoteClosedMsg on a named note: showSplash
FcNoteClosed(rpcOk) ==
    /\ fcRun = "running"
    /\ ~fcPrompt
    /\ FcSet(FcShowSplashOn(FcCur, rpcOk))
    /\ fcLast' = [kind |-> "msg"]
    /\ UNCHANGED <<fcInsert, fcFrame>>

NextFocus ==
    \/ \E key \in FcKeys, hasItem, yes \in BOOLEAN : FcKeyMsg(key, hasItem, yes)
    \/ \E m \in FcMsgs, rpcOk \in BOOLEAN : FcDeliver(m, rpcOk)
    \/ \E insert \in BOOLEAN : FcModeChanged(insert)
    \/ \E rpcOk \in BOOLEAN : FcNoteClosed(rpcOk)

InitFocus == FcInit /\ FcOthersIdle

SpecFocus == InitFocus /\ [][NextFocus]_vars

\* the panels whose own flag says they are focused
FcFlagged == {p \in FcPanels : fcFlags[p]}

\* C22: in every reachable state the App's focus value and the focused flags of
\* the editor, tree and info panels never designate two different panels: a
\* panel whose flag is set is the panel App.focused names.
C22_OneFocus == \A p \in FcFlagged : fcFocused = p

\* C23: while the editor shows the splash no key is written to the editor PTY,
\* and a key has an effect only when the leader takes it.
C23_SplashOnlyLeader ==
    (fcLast.kind = "key" /\ fcLast.splash) =>
        /\ ~fcLast.pty
        /\ fcLast.changed => fcLast.to = "leader"

\* C23 as the code has it: while the editor shows the splash no key is written
\* to the editor PTY and none reaches the tree or the info panel; with no
\* prompt and no finder open, a key other than ctrl+c has an effect only when
\* the leader takes it.
C23_SplashNoPtyWrite ==
    (fcLast.kind = "key" /\ fcLast.splash) =>
        /\ ~fcLast.pty
        /\ fcLast.to \notin {"tree", "info"}
        /\ (fcLast.changed /\ ~fcLast.overlay /\ ~fcLast.ctrlc)
              => fcLast.to = "leader"

\* a key handed to Editor.Update while the splash is shown: the finder was
\* closed with Esc and FinderClosed is still in flight
C23_Witness ==
    /\ fcLast.kind = "key"
    /\ fcLast.splash
    /\ fcLast.to = "editor"
    /\ ~fcLast.pty

\* C38: in every reachable state, if focus is on Tree (respectively Info) then
\* that panel is displayed: its show flag is on, zen mode is off and the
\* editor is not on splash; toggling the panel off, entering zen mode, or
\* going to the splash always moves such a focus to the Editor.
C38_FocusedPanelDisplayed ==
    /\ fcFocused = "tree" => (fcShowTree /\ ~fcZen /\ ~fcSplash)
    /\ fcFocused = "info" => (fcShowInfo /\ ~fcZen /\ ~fcSplash)

\* the tree had the focus and was toggled off with the leader keys: the focus
\* went to the editor
C38_Witness ==
    /\ fcLast.kind = "key"
    /\ fcLast.to = "leader"
    /\ fcLast.from = "tree"
    /\ fcFocused = "editor"
    /\ fcFlags["editor"]
    /\ ~fcShowTree
    /\ fcShowInfo
    /\ ~fcZen
    /\ ~fcFinder
    /\ fcLeader = "off"

\* ---------------------------------------------------------------------------
\* Save: the BufWritePost notification, handleBufferWritten and the commands
\* it returns (reindex, format write-back), next to the keys the loop
\* processes meanwhile.
\* ---------------------------------------------------------------------------

\* the number of writes the user makes
MaxSaves == 2

\* "##  Title   ", four empty lines, "body  ": the buffer of the note whose
\* bytes are "##  Title   \n\n\n\n\nbody  \n"
SvTitleLine == <<HASH, HASH, SP, SP, "T", "i", "t", "l", "e", SP, SP, SP>>

SvBodyLine == <<"b", "o", "d", "y", SP, SP>>

SvScenarioBuf == <<SvTitleLine, <<>>, <<>>, <<>>, <<>>, SvBodyLine>>

\* "## Title\n\nbody\n"
SvOneBlank ==
    <<HASH, HASH, SP, "T", "i", "t", "l", "e", NL, NL, "b", "o", "d", "y", NL>>

\* "## Title\n\n\nbody\n"
SvTwoBlanks ==
    <<HASH, HASH, SP, "T", "i", "t", "l", "e", NL, NL, NL, "b", "o", "d", "y", NL>>

\* the buffers a key can leave in the editor
SvBuffers ==
    { SvScenarioBuf,
      <<<<"a">>>>,
      <<<<"a">>, <<HASH, "b">>>>,
      <<<<HASH, "a", HASH, TAB, HASH>>>> }

\* the bytes the editor writes for a buffer: every line ends with a newline
SvFileOf(lines) == JoinLines(lines) \o <<NL>>

\* strings.Split(text, "\n")
RECURSIVE SplitFrom(_, _)
SplitFrom(text, cur) ==
    IF text = <<>> THEN <<cur>>
    ELSE IF Head(text) = NL THEN <<cur>> \o SplitFrom(Tail(text), <<>>)
    ELSE SplitFrom(Tail(text), Append(cur, Head(text)))

\* the lines formatCmd puts back into the buffer
SvLinesOf(formatted) ==
    LET text == TrimRightSet(formatted, {NL})
    IN  IF text = <<>> THEN <<>> ELSE SplitFrom(text, <<>>)

\* whether an Ex command that writes the buffer fires BufWritePost, all
\* autocommands taken as firing
WriteNotifiesAlways(cmd) == TRUE

\* whether an Ex command that writes the buffer fires BufWritePost and so the
\* kopr:buf-written notification
WriteNotifies(cmd) == cmd = "write"

SvRpc == {"ok", "cursor", "content", "set", "write"}

\* formatCmd: the buffer, the disk and the run state after it; rpc names the
\* call that fails
SvFormatted(buf, disk, rpc) ==
    LET b == JoinLines(buf)
        formatted == Format(b)
        lines == SvLinesOf(formatted)
        same == formatted = b \o <<NL>> \/ formatted = b
    IN  IF rpc \in {"cursor", "content"}
        THEN [buf |-> buf, disk |-> disk, run |-> "fatal", wrote |-> FALSE]
        ELSE IF same
        THEN [buf |-> buf, disk |-> disk, run |-> "running", wrote |-> FALSE]
        ELSE IF rpc = "set"
        THEN [buf |-> buf, disk |-> disk, run |-> "fatal", wrote |-> FALSE]
        ELSE IF rpc = "write"
        THEN [buf |-> lines, disk |-> disk, run |-> "fatal", wrote |-> FALSE]
        ELSE [buf |-> lines, disk |-> SvFileOf(lines), run |-> "running",
              wrote |-> TRUE]

\* handleBufferWritten for a note (.md): the commands it returns; cur: what
\* rpc.CurrentFile answers (the written path, another path, an error)
SvCommandsFor(auto, cur) ==
    [index |-> 1,
     format |-> IF auto /\ cur = "same" THEN 1 ELSE 0,
     fatal |-> auto /\ cur = "error"]

SvPending == svCmds.index + svCmds.format > 0

SvInit ==
    /\ svAuto \in BOOLEAN
    /\ svBuf \in SvBuffers
    /\ svDisk = SvFileOf(<<<<"a">>>>)
    /\ svQueue = 0
    /\ svCmds = [index |-> 0, format |-> 0]
    /\ svWatch = FALSE
    /\ svIndexed = SvFileOf(<<<<"a">>>>)
    /\ svSaves = 0
    /\ svNotified = 0
    /\ svFmtWrites = 0
    /\ svRun = "running"
    /\ svLast = [op |-> "none"]

\* App.Update, case tea.KeyMsg routed to the editor: the key is written to the
\* PTY and leaves the buffer b
SvKeyMsg(b) ==
    /\ svRun = "running"
    /\ svBuf' = b
    /\ svLast' = [op |-> "key", pending |-> SvPending]
    /\ UNCHANGED <<svAuto, svDisk, svQueue, svCmds, svWatch, svIndexed, svSaves,
                   svNotified, svFmtWrites, svRun, svFrame>>

\* the user's :w of the named note: the buffer goes to disk, BufWritePost
\* sends kopr:buf-written and the handler sends BufferWrittenMsg
SvUserSave ==
    /\ svRun = "running"
    /\ svSaves < MaxSaves
    /\ svDisk' = SvFileOf(svBuf)
    /\ svSaves' = svSaves + 1
    /\ svQueue' = IF WriteNotifies("write") THEN svQueue + 1 ELSE svQueue
    /\ svNotified' = IF WriteNotifies("write") THEN svNotified + 1 ELSE svNotified
    /\ svWatch' = TRUE
    /\ svLast' = [op |-> "save"]
    /\ UNCHANGED <<svAuto, svBuf, svCmds, svIndexed, svFmtWrites, svRun, svFrame>>

\* App.Update, case editor.BufferWrittenMsg: handleBufferWritten
SvBufferWritten(cur) ==
    /\ svRun = "running"
    /\ svQueue > 0
    /\ svQueue' = svQueue - 1
    /\ LET c == SvCommandsFor(svAuto, cur)
       IN  /\ svCmds' = IF c.fatal THEN svCmds
                        ELSE [index |-> svCmds.index + c.index,
                              format |-> svCmds.format + c.format]
           /\ svRun' = IF c.fatal THEN "fatal" ELSE svRun
    /\ svLast' = [op |-> "written"]
    /\ UNCHANGED <<svAuto, svBuf, svDisk, svWatch, svIndexed, svSaves, svNotified,
                   svFmtWrites, svFrame>>

\* the reindex command, run off the loop: the file is read and indexed
SvIndexCmd ==
    /\ svRun = "running"
    /\ svCmds.index > 0
    /\ svCmds' = [svCmds EXCEPT !.index = @ - 1]
    /\ svIndexed' = svDisk
    /\ svLast' = [op |-> "index"]
    /\ UNCHANGED <<svAuto, svBuf, svDisk, svQueue, svWatch, svSaves, svNotified,
                   svFmtWrites, svRun, svFrame>>

\* formatCmd, run off the loop
SvFormatCmd(rpc) ==
    /\ svRun = "running"
    /\ svCmds.format > 0
    /\ svCmds' = [svCmds EXCEPT !.format = @ - 1]
    /\ LET r == SvFormatted(svBuf, svDisk, rpc)
           notify == r.wrote /\ WriteNotifies("noautocmd write")
       IN  /\ svBuf' = r.buf
           /\ svDisk' = r.disk
           /\ svRun' = r.run
           /\ svFmtWrites' = IF r.wrote THEN svFmtWrites + 1 ELSE svFmtWrites
           /\ svWatch' = (svWatch \/ r.wrote)
           /\ svQueue' = IF notify THEN svQueue + 1 ELSE svQueue
           /\ svNotified' = IF notify THEN svNotified + 1 ELSE svNotified
           /\ svLast' = [op |-> "format", from |-> svBuf, wrote |-> r.wrote]
    /\ UNCHANGED <<svAuto, svIndexed, svSaves, svFrame>>

\* the watcher's debounced index_file for the written note
SvWatcherIndexes ==
    /\ svRun = "running"
    /\ svWatch
    /\ svWatch' = FALSE
    /\ svIndexed' = svDisk
    /\ svLast' = [op |-> "watch"]
    /\ UNCHANGED <<svAuto, svBuf, svDisk, svQueue, svCmds, svSaves, svNotified,
                   svFmtWrites, svRun, svFrame>>

NextSave ==
    \/ \E b \in SvBuffers : SvKeyMsg(b)
    \/ SvUserSave
    \/ \E cur \in {"same", "other", "error"} : SvBufferWritten(cur)
    \/ SvIndexCmd
    \/ \E rpc \in SvRpc : SvFormatCmd(rpc)
    \/ SvWatcherIndexes

InitSave == SvInit /\ SvOthersIdle

SpecSave == InitSave /\ [][NextSave]_vars

\* the loop takes the messages sent to it and the runtime runs the commands
\* returned to it
SpecSaveFair ==
    /\ SpecSave
    /\ WF_vars(\E cur \in {"same", "other", "error"} : SvBufferWritten(cur))
    /\ WF_vars(SvIndexCmd)
    /\ WF_vars(\E rpc \in SvRpc : SvFormatCmd(rpc))

\* the format command of a save of the scenario's note has run to its end
SvScenarioFormatted ==
    /\ svLast.op = "format"
    /\ svLast.from = SvScenarioBuf
    /\ svRun = "running"

\* C24: with auto_format_on_save, saving the note "##  Title   \n\n\n\n\nbody  \n"
\* leaves "## Title\n\nbody\n" on disk.
C24_ScenarioOneBlank == SvScenarioFormatted => svDisk = SvOneBlank

\* C24 as the code has it: the run of four blank lines is collapsed to two,
\* and "## Title\n\n\nbody\n" is left on disk.
C24_ScenarioTwoBlanks == SvScenarioFormatted => svDisk = SvTwoBlanks

C24_Witness == SvScenarioFormatted /\ svAuto /\ svLast.wrote /\ svDisk = SvTwoBlanks

\* C28: the handling of a BufferWritten event, its reindex and its format
\* write-back, is complete before the loop processes a later key event: no key
\* is processed while a command of a handled BufferWritten is outstanding.
C28_SaveHandledBeforeKeys == svLast.op = "key" => ~svLast.pending

\* nothing is left to do for the saves made so far
SvQuiet == svRun # "running" \/ (svQueue = 0 /\ ~SvPending)

\* C29: with auto_format_on_save a save leads to at most one formatter
\* write-back and then to quiescence: the formatter's write sends no
\* BufferWritten, so every BufferWritten and every write-back is owed to a
\* write of the user, and the queue and the commands drain.
C29_OneWriteBackThenQuiet ==
    /\ [](svNotified = svSaves /\ svFmtWrites <= svSaves)
    /\ <>[]SvQuiet

\* a note the formatter does not bring to a fixed point in one pass was saved
\* and written back once, and nothing is left to do
C29_Witness ==
    /\ svAuto
    /\ svSaves = 1
    /\ svFmtWrites = 1
    /\ svLast.op = "format"
    /\ svLast.from = <<<<HASH, "a", HASH, TAB, HASH>>>>
    /\ Format(svDisk) # svDisk
    /\ svQueue = 0
    /\ ~SvPending

\* ---------------------------------------------------------------------------
\* Save-as: handleSaveAsPrompt over a disk whose files have contents and an
\* index that may be behind the disk.
\* ---------------------------------------------------------------------------

SaPaths == {"a.md", "c.md", "d/a.md"}

\* the names typed into the prompt
SaNames == {"a", "c", "d/a"}

\* the contents of a buffer of the editor
SaBufs == {"buf", "buf2"}

\* the index as checkUniqueBasename reads it
SaDb(indexed) == [notes |-> [q \in AllPaths |-> IF q \in indexed THEN "row" ELSE NoRow]]

\* RPC.WriteBuffer: the Ex command w! writes the buffer over whatever the
\* path holds
WriteBufferOn(disk, relPath, content) == [disk EXCEPT ![relPath] = content]

SaRpc == {"ok", "content", "modifiable", "name", "buftype", "write"}

\* handleSaveAsPrompt(value, closeAfter) on an unnamed buffer: the disk, the
\* current file and the run state after it, and whether the value is accepted
SaveAsOn(disk, indexed, cur, content, value, rpc, mkdirOk, writeOk) ==
    LET relPath == NameToRel(value)
        msg == checkUniqueBasename(SaDb(indexed), relPath)
        c == CreateNoteRes(disk, relPath, content, mkdirOk, writeOk)
        stay(d2, r, ok) == [disk |-> d2, cur |-> cur, run |-> r, ok |-> ok]
    IN  IF msg # "" THEN stay(disk, "running", FALSE)
        ELSE IF rpc = "content" THEN stay(disk, "running", FALSE)
        ELSE IF c.err THEN stay(c.disk, "running", FALSE)
        ELSE IF rpc \in {"modifiable", "name", "buftype", "write"}
        THEN stay(c.disk, "fatal", TRUE)
        ELSE [disk |-> WriteBufferOn(c.disk, relPath, content), cur |-> relPath,
              run |-> "running", ok |-> TRUE]

SaInit ==
    /\ saDisk \in [SaPaths -> {"old", Missing}]
    /\ saIndexed \in SUBSET {p \in SaPaths : saDisk[p] # Missing}
    /\ \A p, q \in saIndexed :
          canonicalBasenameKey(p) = canonicalBasenameKey(q) => p = q
    /\ saCur = ""
    /\ saBuf = "buf"
    /\ saRun = "running"
    /\ saLast = [op |-> "none"]

\* App.Update, case panel.PromptResultMsg with a pending save or close prompt
SaPromptResult(value, rpc, mkdirOk, writeOk) ==
    /\ saRun = "running"
    /\ saCur = ""
    /\ LET r == SaveAsOn(saDisk, saIndexed, saCur, saBuf, value, rpc, mkdirOk, writeOk)
       IN  /\ saDisk' = r.disk
           /\ saCur' = r.cur
           /\ saRun' = r.run
           /\ saLast' = [op |-> "save-as", path |-> NameToRel(value), ok |-> r.ok,
                         was |-> saDisk[NameToRel(value)],
                         indexed |-> NameToRel(value) \in saIndexed]
    /\ UNCHANGED <<saIndexed, saBuf, saFrame>>

\* App.CreateBlankNote: a new unnamed buffer, which the user fills
SaCreateBlankNote(content, rpcOk) ==
    /\ saRun = "running"
    /\ saCur # ""
    /\ saCur' = IF rpcOk THEN "" ELSE saCur
    /\ saBuf' = IF rpcOk THEN content ELSE saBuf
    /\ saRun' = IF rpcOk THEN saRun ELSE "fatal"
    /\ saLast' = [op |-> "new"]
    /\ UNCHANGED <<saDisk, saIndexed, saFrame>>

\* a file written into the vault by another program
SaExternalWrite(p) ==
    /\ saRun = "running"
    /\ saDisk[p] = Missing
    /\ saDisk' = [saDisk EXCEPT ![p] = "old"]
    /\ saLast' = [op |-> "external"]
    /\ UNCHANGED <<saIndexed, saCur, saBuf, saRun, saFrame>>

\* the watcher's debounced index_file for a path on disk
SaWatcherIndexes(p) ==
    /\ saRun = "running"
    /\ saDisk[p] # Missing
    /\ p \notin saIndexed
    /\ \A q \in saIndexed : canonicalBasenameKey(q) # canonicalBasenameKey(p)
    /\ saIndexed' = saIndexed \cup {p}
    /\ saLast' = [op |-> "watch"]
    /\ UNCHANGED <<saDisk, saCur, saBuf, saRun, saFrame>>

NextSaveAs ==
    \/ \E value \in SaNames, rpc \in SaRpc, mkdirOk, writeOk \in BOOLEAN :
          SaPromptResult(value, rpc, mkdirOk, writeOk)
    \/ \E content \in SaBufs, rpcOk \in BOOLEAN : SaCreateBlankNote(content, rpcOk)
    \/ \E p \in SaPaths : SaExternalWrite(p)
    \/ \E p \in SaPaths : SaWatcherIndexes(p)

InitSaveAs == SaInit /\ SaOthersIdle

SpecSaveAs == InitSaveAs /\ [][NextSaveAs]_vars

\* C27: completing a save-as never overwrites or replaces the content of a
\* file that was already on disk at the chosen path, whether the index has
\* the file or not.
C27_SaveAsKeepsExisting ==
    (saLast.op = "save-as" /\ saLast.was # Missing) => saDisk[saLast.path] = saLast.was

\* ---------------------------------------------------------------------------
\* Cut and paste: handlePaste moves a note, the watcher sees the old path go
\* and the new path come and debounces each on a timer of its own, and the
\* editor's write of a moved open note sends BufferWritten.
\* ---------------------------------------------------------------------------

MvPaths == {"a.md", "c.md", "d/a.md"}

MvRpc == {"ok", "fail"}

\* handlePaste for one cut note: the disk and the current file after it,
\* whether the note was moved and whether the editor wrote the moved buffer
PasteOn(disk, d, cur, src, destDir, rpc) ==
    LET newRel == destDir \o Base(src)
        r == MoveNoteOn(disk, src, destDir)
        open == cur = src
    IN  IF checkUniqueBasenameExcept(d, newRel, src) # "" \/ r.err
        THEN [disk |-> disk, cur |-> cur, moved |-> FALSE, wrote |-> FALSE,
              run |-> "running"]
        ELSE IF open /\ rpc # "ok"
        THEN [disk |-> r.disk, cur |-> cur, moved |-> TRUE, wrote |-> FALSE,
              run |-> "fatal-rpc"]
        ELSE [disk |-> r.disk, cur |-> IF open THEN newRel ELSE cur,
              moved |-> TRUE, wrote |-> open, run |-> "running"]

\* the run state after an index_file: a failing IndexFile is fatal, and it
\* fails on the unique basename_key index or on a file that is gone
MvIndexed(d, disk, p) ==
    LET r == IndexFileOn(d, p, disk[p])
    IN  [db |-> r.db,
         run |-> IF ~r.err THEN "running"
                 ELSE IF disk[p] = Missing THEN "fatal-missing"
                 ELSE "fatal-unique"]

MvInit ==
    /\ mvDisk \in [AllPaths -> {"plain", Missing}]
    /\ \A p \in AllPaths \ MvPaths : mvDisk[p] = Missing
    /\ UniqueOnDisk(mvDisk)
    /\ mvDb = WalkFrom(ClearForIndexAll(EmptyDb), mvDisk, 1, 2).db
    /\ mvEvents = {}
    /\ mvReindex = {}
    /\ mvCur \in {""} \cup {p \in MvPaths : mvDisk[p] # Missing}
    /\ mvRun = "running"
    /\ mvLast = [op |-> "none"]

\* App.Update, case panel.TreePasteMsg with one cut note
MvPaste(src, destDir, rpc) ==
    /\ mvRun = "running"
    /\ mvDisk[src] # Missing
    /\ LET r == PasteOn(mvDisk, mvDb, mvCur, src, destDir, rpc)
           newRel == destDir \o Base(src)
       IN  /\ mvDisk' = r.disk
           /\ mvCur' = r.cur
           /\ mvRun' = r.run
           /\ mvEvents' = IF r.moved
                          THEN mvEvents \cup {<<"RemoveFile", src>>, <<"IndexFile", newRel>>}
                          ELSE mvEvents
           /\ mvReindex' = IF r.wrote THEN mvReindex \cup {newRel} ELSE mvReindex
           /\ mvLast' = [op |-> "paste", moved |-> r.moved]
    /\ UNCHANGED <<mvDb, mvFrame>>

\* the function of a debounce timer runs: RemoveFile or IndexFile
MvTimer(op, p) ==
    /\ mvRun = "running"
    /\ <<op, p>> \in mvEvents
    /\ mvEvents' = mvEvents \ {<<op, p>>}
    /\ IF op = "RemoveFile"
       THEN /\ mvDb' = DeleteNoteOn(mvDb, p)
            /\ UNCHANGED mvRun
       ELSE LET r == MvIndexed(mvDb, mvDisk, p)
            IN  /\ mvDb' = r.db
                /\ mvRun' = r.run
    /\ mvLast' = [op |-> "timer"]
    /\ UNCHANGED <<mvDisk, mvReindex, mvCur, mvFrame>>

\* the reindex command of a BufferWritten runs
MvReindexCmd(p) ==
    /\ mvRun = "running"
    /\ p \in mvReindex
    /\ mvReindex' = mvReindex \ {p}
    /\ LET r == MvIndexed(mvDb, mvDisk, p)
       IN  /\ mvDb' = r.db
           /\ mvRun' = r.run
    /\ mvLast' = [op |-> "reindex"]
    /\ UNCHANGED <<mvDisk, mvEvents, mvCur, mvFrame>>

NextMove ==
    \/ \E src \in MvPaths, destDir \in Dirs, rpc \in MvRpc : MvPaste(src, destDir, rpc)
    \/ \E op \in {"RemoveFile", "IndexFile"}, p \in MvPaths : MvTimer(op, p)
    \/ \E p \in MvPaths : MvReindexCmd(p)

InitMove == MvInit /\ MvOthersIdle

SpecMove == InitMove /\ [][NextMove]_vars

\* C25: moving a note whose basename is unique in the vault to another
\* directory by cut and paste never ends in a fatal index error on the unique
\* basename_key index, in whatever order the reindex of the new path, the
\* watcher's remove of the old path and its index of the new path run.
C25_MoveNeverFatal == mvRun # "fatal-unique"

\* ---------------------------------------------------------------------------
\* The leader and the clock.  handleLeaderKey starts a tea.Tick of the leader
\* timeout when Space activates the leader and when a key enters a group;
\* the tick delivers a leaderTimeoutMsg, which carries nothing that names the
\* activation or key it was started for.  Time passes in units; a tick is
\* delivered as soon as it is due.  The editor is focused on an open note and
\* no overlay is visible.
\* ---------------------------------------------------------------------------

\* cfg.LeaderTimeout in units of the clock
LeaderTimeout_units == 2

\* how many ticks are waiting at a time
MaxTicks == 3

LdKeys == {" ", "n", "v", "t", "x"}

\* handleLeaderKey: whether the key is consumed, the leader after it and
\* whether a tick is started
LdLeaderKey(l, key, insert) ==
    IF ~l.active
    THEN IF key # " " \/ insert
         THEN [consumed |-> FALSE, leader |-> l, tick |-> FALSE]
         ELSE [consumed |-> TRUE, leader |-> LeaderStart, tick |-> TRUE]
    ELSE LET keys2 == Append(l.keys, key)
         IN  IF l.node = "root" /\ key \in LeaderGroups
             THEN [consumed |-> TRUE,
                   leader |-> [active |-> TRUE, keys |-> keys2, node |-> key,
                               showHelp |-> FALSE],
                   tick |-> TRUE]
             ELSE [consumed |-> TRUE,
                   leader |-> [l EXCEPT !.active = FALSE, !.keys = keys2,
                                        !.showHelp = FALSE],
                   tick |-> FALSE]

LdInit ==
    /\ ldLeader = [active |-> FALSE, keys |-> <<>>, node |-> "nil", showHelp |-> FALSE]
    /\ ldWhichKey = FALSE
    /\ ldInsert = FALSE
    /\ ldTicks = <<>>
    /\ ldQuiet = 0
    /\ ldLast = "none"

\* App.Update, case tea.KeyMsg: the leader is tried, then updateWhichKey; a
\* key the leader does not consume goes to the editor
LdKeyMsg(key) ==
    /\ \A i \in 1..Len(ldTicks) : ldTicks[i] > 0
    /\ LET r == LdLeaderKey(ldLeader, key, ldInsert)
       IN  /\ r.tick => Len(ldTicks) < MaxTicks
           /\ ldLeader' = r.leader
           /\ ldWhichKey' = IF r.consumed THEN updateWhichKey(r.leader) ELSE ldWhichKey
           /\ ldTicks' = IF r.tick THEN Append(ldTicks, LeaderTimeout_units) ELSE ldTicks
    /\ ldQuiet' = 0
    /\ ldLast' = "key"
    /\ UNCHANGED <<ldInsert, ldFrame>>

\* App.Update, case leaderTimeoutMsg, for the tick that is due:
\* handleLeaderTimeout then updateWhichKey
LdLeaderTimeout ==
    /\ ldTicks # <<>>
    /\ Head(ldTicks) = 0
    /\ ldTicks' = Tail(ldTicks)
    /\ ldLeader' = IF ldLeader.active THEN [ldLeader EXCEPT !.showHelp = TRUE]
                   ELSE ldLeader
    /\ ldWhichKey' = updateWhichKey(ldLeader')
    /\ ldLast' = "timeout"
    /\ UNCHANGED <<ldInsert, ldQuiet, ldFrame>>

\* App.Update, case editor.ModeChangedMsg
LdModeChanged(insert) ==
    /\ \A i \in 1..Len(ldTicks) : ldTicks[i] > 0
    /\ ldInsert' = insert
    /\ ldLeader' = IF insert THEN [ldLeader EXCEPT !.active = FALSE, !.showHelp = FALSE]
                   ELSE ldLeader
    /\ ldWhichKey' = IF insert THEN updateWhichKey(ldLeader') ELSE ldWhichKey
    /\ ldLast' = "mode"
    /\ UNCHANGED <<ldTicks, ldQuiet, ldFrame>>

\* one unit of time passes with no message
LdTimePasses ==
    /\ \A i \in 1..Len(ldTicks) : ldTicks[i] > 0
    /\ ldTicks' = [i \in 1..Len(ldTicks) |-> ldTicks[i] - 1]
    /\ ldQuiet' = IF ldQuiet < LeaderTimeout_units THEN ldQuiet + 1 ELSE ldQuiet
    /\ ldLast' = "time"
    /\ UNCHANGED <<ldLeader, ldWhichKey, ldInsert, ldFrame>>

NextLeader ==
    \/ \E key \in LdKeys : LdKeyMsg(key)
    \/ LdLeaderTimeout
    \/ \E insert \in BOOLEAN : LdModeChanged(insert)
    \/ LdTimePasses

InitLeader == LdInit /\ LdOthersIdle

SpecLeader == InitLeader /\ [][NextLeader]_vars

\* C34: the which-key popup (show_help) becomes true only when the leader has
\* been active at its current node with no key pressed for a full leader
\* timeout; a tick scheduled by an earlier activation or by an earlier key of
\* the sequence never makes the popup appear early.
C34_HelpOnlyAfterFullPause ==
    (ldLeader.showHelp \/ ldWhichKey) => ldQuiet >= LeaderTimeout_units

\* ---------------------------------------------------------------------------
\* index.Open: the schema script, then migrate.  The database file is the
\* notes table: whether it exists, whether it has the basename_key column,
\* whether the unique index on that column exists, and for each path the
\* basename_key of its row.  A file written by a version of the program from
\* before the column existed has the table without the column and the index.
\* ---------------------------------------------------------------------------

\* the value of basename_key in a row of a table that has no such column
NoKey == "nocolumn"

NoDatabase == [table |-> FALSE, hasKey |-> FALSE, index |-> FALSE,
           rows |-> [p \in AllPaths |-> NoRow]]

OldEmpty == [table |-> TRUE, hasKey |-> FALSE, index |-> FALSE,
             rows |-> [p \in AllPaths |-> NoRow]]

RowPaths(f) == {p \in AllPaths : f.rows[p] # NoRow}

\* a unique index on basename_key can be built over the rows
KeysUnique(f) ==
    \A p, q \in RowPaths(f) : p # q => f.rows[p] # f.rows[q]

\* conn.Exec(schema): CREATE TABLE IF NOT EXISTS notes, then CREATE UNIQUE
\* INDEX IF NOT EXISTS idx_notes_basename_key ON notes(basename_key), which
\* fails with "no such column" on a table without the column
SchemaOn(f) ==
    LET t == IF f.table THEN f ELSE [f EXCEPT !.table = TRUE, !.hasKey = TRUE]
    IN  IF t.index THEN [db |-> t, err |-> FALSE]
        ELSE IF ~t.hasKey \/ ~KeysUnique(t) THEN [db |-> t, err |-> TRUE]
        ELSE [db |-> [t EXCEPT !.index = TRUE], err |-> FALSE]

\* ALTER TABLE notes ADD COLUMN basename_key TEXT NOT NULL DEFAULT ''
AddColumn(f) ==
    IF f.hasKey THEN f
    ELSE [f EXCEPT !.hasKey = TRUE,
                   !.rows = [p \in AllPaths |-> IF f.rows[p] = NoRow THEN NoRow ELSE ""]]

\* the backfill loop of migrate over the paths from i on: a second path with
\* a key already seen ends it with an error
RECURSIVE BackfillFrom(_, _, _)
BackfillFrom(f, i, seen) ==
    IF i > Len(WalkOrder) THEN [db |-> f, err |-> FALSE]
    ELSE LET p == WalkOrder[i]
             key == canonicalBasenameKey(p)
         IN  IF f.rows[p] = NoRow THEN BackfillFrom(f, i + 1, seen)
             ELSE IF key \in seen THEN [db |-> f, err |-> TRUE]
             ELSE BackfillFrom([f EXCEPT !.rows[p] = key], i + 1, seen \cup {key})

\* DB.migrate
MigrateOn(f) ==
    LET b == BackfillFrom(AddColumn(f), 1, {})
    IN  IF b.err THEN b
        ELSE IF b.db.index THEN b
        ELSE IF ~KeysUnique(b.db) THEN [db |-> b.db, err |-> TRUE]
        ELSE [db |-> [b.db EXCEPT !.index = TRUE], err |-> FALSE]

\* index.Open: the file after it and the error it returns
OpenOn(f) ==
    LET s == SchemaOn(f)
    IN  IF s.err THEN [db |-> s.db, err |-> "init schema"]
        ELSE LET m == MigrateOn(s.db)
             IN  [db |-> m.db, err |-> IF m.err THEN "migrate db" ELSE ""]

OpInit ==
    /\ opDb \in {NoDatabase, OldEmpty}
    /\ opHandle = FALSE
    /\ opLast = [op |-> "none"]

\* index.Open(path)
Open ==
    /\ ~opHandle
    /\ LET r == OpenOn(opDb)
       IN  /\ opDb' = r.db
           /\ opHandle' = (r.err = "")
           /\ opLast' = [op |-> "open", err |-> r.err, before |-> opDb]
    /\ UNCHANGED opFrame

\* DB.Close
OpClose ==
    /\ opHandle
    /\ opHandle' = FALSE
    /\ opLast' = [op |-> "close"]
    /\ UNCHANGED <<opDb, opFrame>>

\* UpsertNote of the version of the program from before the column
OpOldUpsert(p) ==
    /\ ~opHandle
    /\ opDb.table /\ ~opDb.hasKey
    /\ opDb.rows[p] = NoRow
    /\ opDb' = [opDb EXCEPT !.rows[p] = NoKey]
    /\ opLast' = [op |-> "old-upsert"]
    /\ UNCHANGED <<opHandle, opFrame>>

\* DB.UpsertNote: the insert fails on the unique index
OpUpsert(p) ==
    /\ opHandle
    /\ opDb.rows[p] = NoRow
    /\ LET row == [opDb EXCEPT !.rows[p] = canonicalBasenameKey(p)]
       IN  opDb' = IF KeysUnique(row) THEN row ELSE opDb
    /\ opLast' = [op |-> "upsert"]
    /\ UNCHANGED <<opHandle, opFrame>>

\* DB.DeleteNote
OpDelete(p) ==
    /\ opHandle
    /\ opDb.rows[p] # NoRow
    /\ opDb' = [opDb EXCEPT !.rows[p] = NoRow]
    /\ opLast' = [op |-> "delete"]
    /\ UNCHANGED <<opHandle, opFrame>>

NextOpen ==
    \/ Open
    \/ OpClose
    \/ \E p \in AllPaths : OpOldUpsert(p)
    \/ \E p \in AllPaths : OpUpsert(p)
    \/ \E p \in AllPaths : OpDelete(p)

InitOpen == OpInit /\ OpOthersIdle

SpecOpen == InitOpen /\ [][NextOpen]_vars

\* no two rows of the file share a lowercase basename
NoSharedBasename(f) ==
    \A p, q \in RowPaths(f) :
        p # q => canonicalBasenameKey(p) # canonicalBasenameKey(q)

\* C36: opening an index database whose notes table lacks the basename_key
\* column, and in which no two rows share a lowercase basename, succeeds: the
\* column is added and backfilled with the lowercase basename of every
\* existing row.
C36_OldDatabaseOpens ==
    (/\ opLast.op = "open"
     /\ opLast.before.table
     /\ ~opLast.before.hasKey
     /\ NoSharedBasename(opLast.before))
        => /\ opLast.err = ""
           /\ opDb.hasKey
           /\ \A p \in RowPaths(opLast.before) : opDb.rows[p] = canonicalBasenameKey(p)

\* ---------------------------------------------------------------------------
\* nvimPTY: the editor process started on a PTY with a listen socket, resize
\* and close.  closeErr, waitErr and rmErr are the outcomes of file.Close,
\* cmd.Wait and os.Remove.
\* ---------------------------------------------------------------------------

\* the window sizes handed to startNvim and resize
PtSizes == {1, 24, 80, 65537}

\* nvimPTY.close: the handle, the process and the socket file after it, and
\* the error returned
PtCloseOn(file, proc, socket, closeErr, waitErr, rmErr) ==
    IF closeErr
    THEN [file |-> file, proc |-> proc, socket |-> socket, err |-> "close"]
    ELSE [file |-> "closed", proc |-> "reaped",
          socket |-> IF rmErr THEN socket ELSE FALSE,
          err |-> IF socket /\ rmErr THEN "remove"
                  ELSE IF waitErr THEN "wait" ELSE ""]

PtInit ==
    /\ ptFile = "none"
    /\ ptProc = "none"
    /\ ptSocket = FALSE
    /\ ptRows = 0
    /\ ptCols = 0
    /\ ptLast = [op |-> "none"]

\* startNvim(width, height, socketPath, vaultPath); ok: the process starts
startNvim(width, height, ok) ==
    /\ ptFile = "none"
    /\ ptFile' = IF ok THEN "open" ELSE "none"
    /\ ptProc' = IF ok THEN "running" ELSE "none"
    /\ ptSocket' = ok
    /\ ptRows' = IF ok THEN Uint16(height) ELSE ptRows
    /\ ptCols' = IF ok THEN Uint16(width) ELSE ptCols
    /\ ptLast' = [op |-> "start", ok |-> ok]
    /\ UNCHANGED ptFrame

\* nvimPTY.resize(width, height)
PtResize(width, height) ==
    /\ ptFile = "open"
    /\ ptRows' = Uint16(height)
    /\ ptCols' = Uint16(width)
    /\ ptLast' = [op |-> "resize"]
    /\ UNCHANGED <<ptFile, ptProc, ptSocket, ptFrame>>

\* the editor ends on RPC.Quit before its PTY is closed; it removes its
\* socket file or leaves it
PtEditorExits(removes) ==
    /\ ptProc = "running"
    /\ ptProc' = "exited"
    /\ ptSocket' = IF removes THEN FALSE ELSE ptSocket
    /\ ptLast' = [op |-> "exit"]
    /\ UNCHANGED <<ptFile, ptRows, ptCols, ptFrame>>

\* nvimPTY.close(); closing a handle that is already closed is an error
PtClose(closeErr, waitErr, rmErr) ==
    /\ ptFile # "none"
    /\ ptFile = "closed" => closeErr
    /\ ptProc = "reaped" => waitErr
    /\ LET r == PtCloseOn(ptFile, ptProc, ptSocket, closeErr, waitErr, rmErr)
       IN  /\ ptFile' = r.file
           /\ ptProc' = r.proc
           /\ ptSocket' = r.socket
           /\ ptLast' = [op |-> "close", err |-> r.err, rmErr |-> rmErr]
    /\ UNCHANGED <<ptRows, ptCols, ptFrame>>

NextPty ==
    \/ \E width, height \in PtSizes, ok \in BOOLEAN : startNvim(width, height, ok)
    \/ \E width, height \in PtSizes : PtResize(width, height)
    \/ \E removes \in BOOLEAN : PtEditorExits(removes)
    \/ \E closeErr, waitErr, rmErr \in BOOLEAN : PtClose(closeErr, waitErr, rmErr)

InitPty == PtInit /\ PtOthersIdle

SpecPty == InitPty /\ [][NextPty]_vars

\* C37: closing the editor host always reaps the editor process and removes
\* the listen-socket file (unless the removal itself fails), including on the
\* path where closing the PTY handle returns an error.
C37_CloseAlwaysReleases ==
    ptLast.op = "close" =>
        /\ ptProc = "reaped"
        /\ ~ptLast.rmErr => ~ptSocket

\* ---------------------------------------------------------------------------
\* App.View: the columns of the three panels as rendered.  A side panel is
\* rendered by a style with Width(TreeWidth - 1) and one border column, which
\* lipgloss draws outside the width of the style; the editor by a style with
\* Width(EditorWidth).
\* ---------------------------------------------------------------------------

\* the window sizes and the configured panel widths
VwWidths == {59, 60, 61, 80, 200}
VwHeights == {23, 24}
VwPanelWidths == {2, 20, 30, 100}

\* the columns of a side panel: the width of its style and its border
PanelColumns(layoutWidth) ==
    (IF layoutWidth - 1 < 0 THEN 0 ELSE layoutWidth - 1) + 1

\* App.View(): what it renders and the columns of each panel
ViewColumns(w, h, withTree, withInfo, treeWidth, infoWidth) ==
    IF w = 0 \/ h = 0 THEN [kind |-> "loading"]
    ELSE IF w < MinWindowWidth \/ h < MinWindowHeight THEN [kind |-> "too small"]
    ELSE LET layout == ComputeLayout(w, h, withTree, withInfo, treeWidth, infoWidth)
         IN  [kind |-> "panels",
              tree |-> IF withTree THEN PanelColumns(layout.TreeWidth) ELSE 0,
              editor |-> layout.EditorWidth,
              info |-> IF withInfo THEN PanelColumns(layout.InfoWidth) ELSE 0]

VwInit ==
    /\ vwW = 0
    /\ vwH = 0
    /\ vwShowTree \in BOOLEAN
    /\ vwShowInfo \in BOOLEAN
    /\ vwTreeWidth \in VwPanelWidths
    /\ vwInfoWidth \in VwPanelWidths
    /\ vwCols = [kind |-> "none"]

\* App.Update(tea.WindowSizeMsg{w, h})
VwWindowSize(w, h) ==
    /\ vwW' = w
    /\ vwH' = h
    /\ UNCHANGED <<vwShowTree, vwShowInfo, vwTreeWidth, vwInfoWidth, vwCols, vwFrame>>

\* App.ToggleTree() on an open note outside zen mode
VwToggleTree ==
    /\ vwShowTree' = ~vwShowTree
    /\ UNCHANGED <<vwW, vwH, vwShowInfo, vwTreeWidth, vwInfoWidth, vwCols, vwFrame>>

\* App.ToggleInfo() on an open note outside zen mode
VwToggleInfo ==
    /\ vwShowInfo' = ~vwShowInfo
    /\ UNCHANGED <<vwW, vwH, vwShowTree, vwTreeWidth, vwInfoWidth, vwCols, vwFrame>>

\* App.View()
View ==
    /\ vwCols' = ViewColumns(vwW, vwH, vwShowTree, vwShowInfo, vwTreeWidth, vwInfoWidth)
    /\ UNCHANGED <<vwW, vwH, vwShowTree, vwShowInfo, vwTreeWidth, vwInfoWidth, vwFrame>>

NextView ==
    \/ \E w \in VwWidths, h \in VwHeights : VwWindowSize(w, h)
    \/ VwToggleTree
    \/ VwToggleInfo
    \/ View

InitView == VwInit /\ VwOthersIdle

SpecView == InitView /\ [][NextView]_vars

\* C39: for every terminal width W >= 60 and every combination of
\* show_tree/show_info flags and configured panel widths, the columns allotted
\* to tree, editor and info as rendered (side panels including their border
\* column) sum to at most W.
C39_ColumnsFitWindow ==
    (/\ vwCols.kind = "panels"
     /\ vwCols = ViewColumns(vwW, vwH, vwShowTree, vwShowInfo, vwTreeWidth, vwInfoWidth))
        => vwCols.tree + vwCols.editor + vwCols.info <= vwW

\* ---------------------------------------------------------------------------
\* The tree panel: Refresh, rebuildVisible and Update.  An entry is its path;
\* the vault holds the directory d and up to three notes, and ListEntries
\* returns them in the order of entryLess (directories first).
\* ---------------------------------------------------------------------------

TrOrder == <<"d", "d/b.md", "d/c.md", "a.md">>
TrPaths == {TrOrder[i] : i \in 1..Len(TrOrder)}
TrIsDir(p) == p = "d"
TrInDir(p) == p \in {"d/b.md", "d/c.md"}

\* Tree.height: two rows of entries are in view
TrHeight == 4

TrKeys == {"j", "k", "enter", "G", "g", "a", "v", "V", "y", "x", "p", "d", "r", "?", "q"}

\* the contents a vault can have: a note in d needs d
TrVaults == {v \in SUBSET TrPaths : (\E p \in v : TrInDir(p)) => "d" \in v}

\* Vault.ListEntries over the paths of v
RECURSIVE TrListFrom(_, _)
TrListFrom(v, i) ==
    IF i > Len(TrOrder) THEN <<>>
    ELSE IF TrOrder[i] \in v THEN <<TrOrder[i]>> \o TrListFrom(v, i + 1)
    ELSE TrListFrom(v, i + 1)

\* isHiddenByCollapse
isHiddenByCollapse(collapsed, p) == TrInDir(p) /\ "d" \in collapsed

\* the loop of rebuildVisible over the entries from i on
RECURSIVE TrVisibleFrom(_, _, _)
TrVisibleFrom(all, collapsed, i) ==
    IF i > Len(all) THEN <<>>
    ELSE IF isHiddenByCollapse(collapsed, all[i]) THEN TrVisibleFrom(all, collapsed, i + 1)
    ELSE <<all[i]>> \o TrVisibleFrom(all, collapsed, i + 1)

\* rebuildVisible with the cursor left as it is
ClampCursorNone(cursor, n) == cursor

\* rebuildVisible: the clamp of the cursor to the n visible entries
ClampCursor(cursor, n) ==
    LET c == IF cursor >= n THEN n - 1 ELSE cursor
    IN  IF c < 0 THEN 0 ELSE c

\* the tree as a record
TrCur ==
    [all |-> trAll, entries |-> trEntries, collapsed |-> trCollapsed,
     selected |-> trSelected, clipboard |-> trClipboard, cursor |-> trCursor,
     offset |-> trOffset, showHelp |-> trShowHelp]

\* Tree.rebuildVisible
rebuildVisible(t) ==
    LET vis == TrVisibleFrom(t.all, t.collapsed, 1)
    IN  [t EXCEPT !.entries = vis, !.cursor = ClampCursor(t.cursor, Len(vis))]

\* Tree.pruneStale
pruneStale(t) ==
    LET exists == {t.all[i] : i \in 1..Len(t.all)}
        valid == t.clipboard.paths \cap exists
    IN  [t EXCEPT !.selected = t.selected \cap exists,
                  !.clipboard = IF t.clipboard.op = "none" THEN t.clipboard
                                ELSE IF valid = {} THEN [op |-> "none", paths |-> {}]
                                ELSE [t.clipboard EXCEPT !.paths = valid]]

\* Tree.Refresh with the vault holding the paths of v
TrRefreshOn(t, v) == pruneStale(rebuildVisible([t EXCEPT !.all = TrListFrom(v, 1)]))

\* the entry under the cursor (the cursor counts from 0), "" when there is none
TrEntryAt(t) == IF t.cursor < Len(t.entries) THEN t.entries[t.cursor + 1] ELSE ""

\* collectTargets
collectTargets(t) ==
    IF t.selected # {} THEN t.selected
    ELSE IF TrEntryAt(t) # "" /\ ~TrIsDir(TrEntryAt(t)) THEN {TrEntryAt(t)}
    ELSE {}

\* Tree.Update for a key with the tree focused and no help shown: the tree
\* after it and the message of the command it returns
TrKeyOn(t, key) ==
    LET e == TrEntryAt(t)
        targets == collectTargets(t)
        r(u, m) == [t |-> u, msg |-> m]
    IN  CASE key = "j" ->
                IF t.cursor < Len(t.entries) - 1
                THEN r([t EXCEPT !.cursor = @ + 1,
                                 !.offset = IF t.cursor + 1 - t.offset >= TrHeight - 2
                                            THEN @ + 1 ELSE @], "")
                ELSE r(t, "")
          [] key = "k" ->
                IF t.cursor > 0
                THEN r([t EXCEPT !.cursor = @ - 1,
                                 !.offset = IF t.cursor - 1 < t.offset
                                            THEN t.cursor - 1 ELSE @], "")
                ELSE r(t, "")
          [] key = "enter" ->
                IF e = "" THEN r(t, "")
                ELSE IF TrIsDir(e)
                THEN r(rebuildVisible([t EXCEPT !.collapsed =
                           IF e \in @ THEN @ \ {e} ELSE @ \cup {e}]), "")
                ELSE r(t, "FileSelected")
          [] key = "G" ->
                IF Len(t.entries) = 0 THEN r(t, "")
                ELSE LET c == Len(t.entries) - 1
                     IN  r([t EXCEPT !.cursor = c,
                                     !.offset = IF c - t.offset >= TrHeight - 2
                                                THEN c - TrHeight + 3 ELSE @], "")
          [] key = "g" -> r([t EXCEPT !.cursor = 0, !.offset = 0], "")
          [] key = "a" -> r(t, "TreeNewNote")
          [] key = "v" ->
                IF e # "" /\ ~TrIsDir(e)
                THEN r([t EXCEPT !.selected = IF e \in @ THEN @ \ {e} ELSE @ \cup {e}], "")
                ELSE r(t, "")
          [] key = "V" ->
                r([t EXCEPT !.selected = {}, !.clipboard = [op |-> "none", paths |-> {}]],
                  "TreeClipboardChanged")
          [] key \in {"y", "x"} ->
                IF targets # {}
                THEN r([t EXCEPT !.clipboard = [op |-> IF key = "y" THEN "copy" ELSE "cut",
                                                paths |-> targets],
                                 !.selected = {}], "TreeClipboardChanged")
                ELSE r(t, "")
          [] key = "p" ->
                IF t.clipboard.op = "none" \/ t.clipboard.paths = {} THEN r(t, "")
                ELSE r([t EXCEPT !.clipboard = [op |-> "none", paths |-> {}]], "TreePaste")
          [] key = "d" ->
                IF Cardinality(targets) = 1 THEN r(t, "TreeDeleteNote")
                ELSE IF Cardinality(targets) > 1 THEN r(t, "TreeDeleteNotes")
                ELSE r(t, "")
          [] key = "r" ->
                IF e # "" /\ ~TrIsDir(e) THEN r(t, "TreeRenameNote") ELSE r(t, "")
          [] key = "?" -> r([t EXCEPT !.showHelp = ~@], "")
          [] OTHER -> r(t, "")

TrSet(t) ==
    /\ trAll' = t.all
    /\ trEntries' = t.entries
    /\ trCollapsed' = t.collapsed
    /\ trSelected' = t.selected
    /\ trClipboard' = t.clipboard
    /\ trCursor' = t.cursor
    /\ trOffset' = t.offset
    /\ trShowHelp' = t.showHelp

\* NewTree
TrInit ==
    /\ trAll = <<>>
    /\ trEntries = <<>>
    /\ trCollapsed = {}
    /\ trSelected = {}
    /\ trClipboard = [op |-> "none", paths |-> {}]
    /\ trCursor = 0
    /\ trOffset = 0
    /\ trFocused = FALSE
    /\ trShowHelp = FALSE
    /\ trLast = [op |-> "none"]

\* Tree.Update(tea.KeyMsg)
TrUpdate(key) ==
    /\ IF ~trFocused THEN TrSet(TrCur)
       ELSE IF trShowHelp THEN TrSet([TrCur EXCEPT !.showHelp = FALSE])
       ELSE TrSet(TrKeyOn(TrCur, key).t)
    /\ trLast' = [op |-> "key", key |-> key, acted |-> trFocused /\ ~trShowHelp,
                  was |-> trCursor]
    /\ UNCHANGED <<trFocused, trFrame>>

\* Tree.Refresh() with the vault holding the paths of v
TrRefresh(v) ==
    /\ TrSet(TrRefreshOn(TrCur, v))
    /\ trLast' = [op |-> "refresh", key |-> "", acted |-> TRUE, was |-> trCursor]
    /\ UNCHANGED <<trFocused, trFrame>>

\* Tree.SetFocused
TrSetFocused(b) ==
    /\ trFocused' = b
    /\ trLast' = [op |-> "focus", key |-> "", acted |-> TRUE, was |-> trCursor]
    /\ UNCHANGED <<trAll, trEntries, trCollapsed, trSelected, trClipboard, trCursor,
                   trOffset, trShowHelp, trFrame>>

NextTree ==
    \/ \E key \in TrKeys : TrUpdate(key)
    \/ \E v \in TrVaults : TrRefresh(v)
    \/ \E b \in BOOLEAN : TrSetFocused(b)

InitTree == TrInit /\ TrOthersIdle

SpecTree == InitTree /\ [][NextTree]_vars

\* C40: for any sequence of tree key presses and tree refreshes, including on
\* an empty tree, the tree cursor stays in range: it is never negative, it is
\* 0 when the tree is empty, and it is less than the number of visible entries
\* whenever the tree is non-empty.
C40_CursorInRange ==
    /\ trCursor >= 0
    /\ Len(trEntries) = 0 => trCursor = 0
    /\ Len(trEntries) > 0 => trCursor < Len(trEntries)

\* a refresh found the vault empty with the cursor on a later entry, and the
\* cursor went back to 0
C40_Witness ==
    /\ trLast.op = "refresh"
    /\ trLast.was > 0
    /\ Len(trEntries) = 0
    /\ trCursor = 0

\* C9: for every input x, Format(Format(x)) equals Format(x).
C9_FormatIdempotent == fmtPc = "twice" => fmtTwice = fmtOnce

=============================================================================
